---- MODULE Spec2Model ----
\* A model of the .vec segment store of post-06-binary-file-formats
\* (segment-format.rs): the header, the buffered writer and the four readers,
\* over one path of a file system.
EXTENDS Integers, Sequences, FiniteSets, TLC

\* ---------------------------------------------------------------------------
\* Bounds of the model
\* ---------------------------------------------------------------------------

\* the longest input sequence of vectors handed to write_segment
MaxCount == 3

\* the longest vector handed to write_segment
MaxDim == 2

\* the capacity of BufWriter's buffer. std's default is 8192 bytes; the model
\* scales it down so that the buffer fills, and is flushed, in the middle of a
\* segment.
BufCap == 20

\* ---------------------------------------------------------------------------
\* Fixed-width unsigned integers
\*
\* A u32 is a numeral of 4 base-256 digits, a u64 one of 8, most significant
\* digit first. (TLC's integers stop at 2^31 - 1.)
\* ---------------------------------------------------------------------------

\* digit k of numeral a, k = 0 being the least significant
Digit(a, k) == IF k < Len(a) THEN a[Len(a) - k] ELSE 0

RECURSIVE NatDigits(_, _)
\* `n as uW`: the w-digit numeral of the natural number n, high digits dropped
NatDigits(n, w) ==
    IF w = 0 THEN <<>> ELSE NatDigits(n \div 256, w - 1) \o <<n % 256>>

AsU32(n) == NatDigits(n, 4)

\* `x as u64` of a u32: zero extension
AsU64(a) == <<0, 0, 0, 0>> \o a

RECURSIVE ToNat(_)
\* the value of a numeral (used only where it is known to be small)
ToNat(a) == IF a = <<>> THEN 0 ELSE ToNat(SubSeq(a, 1, Len(a) - 1)) * 256 + a[Len(a)]

\* a < b, for numerals of one width
Less(a, b) ==
    \E i \in 1..Len(a) : a[i] < b[i] /\ \A j \in 1..(i - 1) : a[j] = b[j]

LessEq(a, b) == a = b \/ Less(a, b)

\* (Below, a value that is used more than once is bound by a quantifier over
\* a one-element set, `\E t \in {e}` or `{ ... : t \in {e} }`: TLC evaluates a
\* bound value once, and a LET definition or an argument at every use.)

\* the one element of a one-element set
The(S) == CHOOSE x \in S : TRUE

RECURSIVE AddDigits(_, _, _, _)
\* the digits k and up of a + b given the carry c into digit k, the carry out
\* of the top digit in front
AddDigits(a, b, k, c) ==
    IF k = Len(a) THEN <<c>>
    ELSE The({ AddDigits(a, b, k + 1, t \div 256) \o <<t % 256>> :
                  t \in {Digit(a, k) + Digit(b, k) + c} })

\* a + b in full: the carry, then the digits
Sum(a, b) == The({ AddDigits(x, y, 0, 0) : x \in {a}, y \in {b} })

\* a + b modulo the width
WrappingAdd(a, b) == Tail(Sum(a, b))

\* a + b does not fit the width
AddOverflows(a, b) == Head(Sum(a, b)) > 0

\* a + b as overflow-checking arithmetic sees it: the wrapped sum, and
\* whether it wrapped
CheckedAdd(a, b) ==
    The({ [value |-> Tail(s), overflow |-> Head(s) > 0] : s \in {Sum(a, b)} })

RECURSIVE MulColumn(_, _, _, _)
\* the sum of Digit(a, i) * Digit(b, k - i) over i = 0..m
MulColumn(a, b, k, m) ==
    IF m < 0 \/ k - m >= Len(b) THEN 0
    ELSE Digit(a, m) * Digit(b, k - m) + MulColumn(a, b, k, m - 1)

RECURSIVE MulDigits(_, _, _, _)
\* the digits k and up of the full product a * b (twice the width), given the
\* carry c into digit k
MulDigits(a, b, k, c) ==
    IF k = 2 * Len(a) THEN <<>>
    ELSE The({ MulDigits(a, b, k + 1, t \div 256) \o <<t % 256>> :
                  t \in {MulColumn(a, b, k, IF k < Len(a) THEN k ELSE Len(a) - 1) + c} })

\* a * b in full, twice the width
Product(a, b) == The({ MulDigits(x, y, 0, 0) : x \in {a}, y \in {b} })

\* a * b modulo the width
WrappingMul(a, b) ==
    The({ SubSeq(m, Len(m) \div 2 + 1, Len(m)) : m \in {Product(a, b)} })

\* a * b does not fit the width
MulOverflows(a, b) ==
    \E m \in {Product(a, b)} : \E i \in 1..(Len(m) \div 2) : m[i] # 0

\* a * b as overflow-checking arithmetic sees it
CheckedMul(a, b) ==
    The({ [value    |-> SubSeq(m, Len(m) \div 2 + 1, Len(m)),
           overflow |-> \E i \in 1..(Len(m) \div 2) : m[i] # 0] :
             m \in {Product(a, b)} })

\* ---------------------------------------------------------------------------
\* Constants of the format
\* ---------------------------------------------------------------------------

\* a faulty variant: b"vect"
MAGIC_lowercase == <<118, 101, 99, 116>>

\* b"VECT"
MAGIC == <<86, 69, 67, 84>>

VERSION == 1

HEADER_SIZE == 16

\* u32::MAX
U32Max == <<255, 255, 255, 255>>

\* ---------------------------------------------------------------------------
\* f32 values, each held as its IEEE-754 bit pattern (f32::to_bits)
\* ---------------------------------------------------------------------------

\* 1.0 = 0x3F800000, NaN = 0x7FC00000 (f32::NAN)
Floats == { <<63, 128, 0, 0>>, <<127, 192, 0, 0>> }

\* f32::is_nan: the exponent is all ones and the fraction is not zero
is_nan(a) ==
    /\ a[1] % 128 = 127 /\ a[2] >= 128
    /\ (a[2] % 128 # 0 \/ a[3] # 0 \/ a[4] # 0)

\* +0.0 or -0.0
is_zero(a) == a[1] % 128 = 0 /\ a[2] = 0 /\ a[3] = 0 /\ a[4] = 0

\* f32's ==: a NaN equals nothing, itself included; the two zeros are equal
f32_eq(a, b) ==
    /\ ~is_nan(a) /\ ~is_nan(b)
    /\ (a = b \/ (is_zero(a) /\ is_zero(b)))

\* Vec<f32>'s ==: equal lengths and equal elements
data_eq(x, y) ==
    /\ Len(x) = Len(y)
    /\ \A j \in 1..Len(x) : f32_eq(x[j], y[j])

RECURSIVE Reverse(_)
Reverse(s) == IF s = <<>> THEN <<>> ELSE Reverse(Tail(s)) \o <<Head(s)>>

\* a faulty variant: to_be_bytes: most significant byte first
to_be_bytes(a) == a

\* u32::to_le_bytes, f32::to_le_bytes: least significant byte first
to_le_bytes(a) == Reverse(a)

\* a faulty variant: from_be_bytes
from_be_bytes(bytes) == bytes

\* u32::from_le_bytes, f32::from_le_bytes
from_le_bytes(bytes) == Reverse(bytes)

\* ---------------------------------------------------------------------------
\* Results and errors (io::Result, io::Error)
\* ---------------------------------------------------------------------------

NoResult == [kind |-> "None"]

Ok(v) == [kind |-> "Ok", value |-> v]

\* io::Error::new(kind, message): the message's template and its arguments
IoError(k, m, a) == [kind |-> k, msg |-> m, args |-> a]

Err(e) == [kind |-> "Err", error |-> e]

\* the thread panicked (overflow checks on)
Panic(m) == [kind |-> "Panic", msg |-> m]

\* the process was aborted (alloc::handle_alloc_error)
Abort(m) == [kind |-> "Abort", msg |-> m]

UnexpectedEof == IoError("UnexpectedEof", "failed to fill whole buffer", <<>>)

NotFound == IoError("NotFound", "No such file or directory", <<>>)

StorageFull == IoError("StorageFull", "No space left on device", <<>>)

\* ---------------------------------------------------------------------------
\* Vector
\* ---------------------------------------------------------------------------

\* a faulty variant: the vector is made with an entry in its map
Vector_new_tagged(data) == [data |-> data, metadata |-> {<<"source", "segment">>}]

\* Vector::new: the data with an empty metadata map
Vector_new(data) == [data |-> data, metadata |-> {}]

\* Vector::dimension
dimension(v) == Len(v.data)

\* ---------------------------------------------------------------------------
\* The file behind one handle, and the buffered writer over it
\*
\* A writer is [file, pos, buf]: the bytes of the file at the path, the
\* handle's offset and BufWriter's buffer.
\* ---------------------------------------------------------------------------

\* write(2) at an offset: the file grows, a gap reads as zeros
FileWriteAt(f, pos, data) ==
    LET n == IF Len(f) > pos + Len(data) THEN Len(f) ELSE pos + Len(data)
    IN  [k \in 1..n |->
            IF k > pos /\ k <= pos + Len(data) THEN data[k - pos]
            ELSE IF k <= Len(f) THEN f[k] ELSE 0]

\* BufWriter::flush_buf: the buffer goes to the file at the handle's offset
flush_buf(writer) ==
    The({ [file |-> FileWriteAt(w.file, w.pos, w.buf),
           pos  |-> w.pos + Len(w.buf),
           buf  |-> <<>>] : w \in {writer} })

\* BufWriter::write_all: data shorter than the spare capacity is buffered; else
\* the buffer is flushed if the data does not fit, and data as long as the
\* whole capacity goes straight to the file
BufWriter_write_all(writer, bytes) ==
    The({ LET spare == BufCap - Len(w.buf)
          IN  IF Len(data) < spare
              THEN [w EXCEPT !.buf = w.buf \o data]
              ELSE The({ IF Len(data) >= BufCap
                         THEN [f EXCEPT !.file = FileWriteAt(f.file, f.pos, data),
                                        !.pos = f.pos + Len(data)]
                         ELSE [f EXCEPT !.buf = f.buf \o data] :
                            f \in {IF Len(data) > spare THEN flush_buf(w) ELSE w} }) :
             w \in {writer}, data \in {bytes} })

\* a faulty variant: the value is written most significant byte first
write_u32_be(w, value) == BufWriter_write_all(w, value)

write_u32(w, value) == BufWriter_write_all(w, to_le_bytes(value))

write_f32(w, value) == BufWriter_write_all(w, to_le_bytes(value))

RECURSIVE write_components(_, _)
\* the inner loop of write_segment: write_f32 for each component in order
write_components(w, data) ==
    IF data = <<>> THEN w
    ELSE write_components(write_f32(w, Head(data)), Tail(data))

\* ---------------------------------------------------------------------------
\* SegmentHeader
\* ---------------------------------------------------------------------------

SegmentHeader(v, c, d) == [version |-> v, count |-> c, dimension |-> d]

Hdr64 == NatDigits(HEADER_SIZE, 8)

Four64 == <<0, 0, 0, 0, 0, 0, 0, 4>>

\* HEADER_SIZE + (n as u64 * dimension as u64 * 4), in u64 arithmetic: the
\* wrapped value, and whether a step of it overflowed
OffsetOf(n, dim) ==
    The({ The({ The({ [value    |-> s.value,
                       overflow |-> p1.overflow \/ p2.overflow \/ s.overflow] :
                         s \in {CheckedAdd(Hdr64, p2.value)} }) :
                   p2 \in {CheckedMul(p1.value, Four64)} }) :
             p1 \in {CheckedMul(AsU64(n), AsU64(dim))} })

data_offset(h) == Hdr64

file_size(h) == OffsetOf(h.count, h.dimension)

\* a faulty variant: the offset of the vector after the one asked for
vector_offset_next(h, index) ==
    OffsetOf(WrappingAdd(index, <<0, 0, 0, 1>>), h.dimension)

vector_offset(h, index) == OffsetOf(index, h.dimension)

\* a faulty variant: the dimension is written before the count
SegmentHeader_write_swapped(h, w) ==
    write_u32(write_u32(write_u32(BufWriter_write_all(w, MAGIC), h.version),
                        h.dimension),
              h.count)

\* SegmentHeader::write: magic, version, count, dimension
SegmentHeader_write(h, w) ==
    write_u32(write_u32(write_u32(BufWriter_write_all(w, MAGIC), h.version),
                        h.count),
              h.dimension)

\* ---------------------------------------------------------------------------
\* Readers
\*
\* A reader is [file, off, buf, buffered]: the bytes of the file at the path,
\* the handle's offset (a u64), BufReader's unread bytes, and whether the
\* handle is wrapped in a BufReader at all (read_vector_at and
\* read_vectors_range read the File directly).
\* ---------------------------------------------------------------------------

Zero64 == <<0, 0, 0, 0, 0, 0, 0, 0>>

Len64(f) == NatDigits(Len(f), 8)

Min(a, b) == IF a < b THEN a ELSE b

\* read(2): up to n bytes at the offset, none at or past the end of the file
File_read(reader, n) ==
    The({ IF Less(r.off, Len64(r.file))
          THEN LET p == ToNat(r.off)
                   e == Min(p + n, Len(r.file))
               IN  [bytes |-> SubSeq(r.file, p + 1, e),
                    r     |-> [r EXCEPT !.off = NatDigits(e, 8)]]
          ELSE [bytes |-> <<>>, r |-> r] : r \in {reader} })

\* Read::read of the reader: BufReader refills its empty buffer with one read
\* of up to its capacity (a request of the whole capacity bypasses the buffer)
\* and hands out what it holds
Reader_read(reader, n) ==
    The({ IF ~r.buffered \/ (r.buf = <<>> /\ n >= BufCap)
          THEN File_read(r, n)
          ELSE The({ LET k == Min(n, Len(x.bytes))
                     IN  [bytes |-> SubSeq(x.bytes, 1, k),
                          r     |-> [x.r EXCEPT
                                        !.buf = SubSeq(x.bytes, k + 1, Len(x.bytes))]] :
                        x \in {IF r.buf = <<>> THEN File_read(r, BufCap)
                               ELSE [bytes |-> r.buf, r |-> r]} }) :
             r \in {reader} })

RECURSIVE read_exact_loop(_, _, _)
\* Read::read_exact: read until n bytes are there; a read of nothing is
\* UnexpectedEof
read_exact_loop(r, got, n) ==
    IF Len(got) = n THEN [ok |-> TRUE, bytes |-> got, r |-> r]
    ELSE The({ IF x.bytes = <<>> THEN [ok |-> FALSE, bytes |-> got, r |-> x.r]
               ELSE read_exact_loop(x.r, got \o x.bytes, n) :
                  x \in {Reader_read(r, n - Len(got))} })

\* a faulty variant: one `read` whose count is ignored, the buffer's zeros
\* standing for the bytes that did not come
read_exact_padded(r, n) ==
    The({ [ok    |-> TRUE,
           bytes |-> x.bytes \o [i \in 1..(n - Len(x.bytes)) |-> 0],
           r     |-> x.r] : x \in {read_exact_loop(r, <<>>, n)} })

read_exact(r, n) == read_exact_loop(r, <<>>, n)

read_u32(r) ==
    The({ [ok |-> x.ok, value |-> from_le_bytes(x.bytes), r |-> x.r] :
             x \in {read_exact(r, 4)} })

read_f32(r) ==
    The({ [ok |-> x.ok, value |-> from_le_bytes(x.bytes), r |-> x.r] :
             x \in {read_exact(r, 4)} })

\* a faulty variant: the version is read and not compared
SegmentHeader_read_any_version(r) ==
    The({ IF ~m.ok THEN [result |-> Err(UnexpectedEof), r |-> m.r]
          ELSE IF m.bytes # MAGIC
          THEN [result |-> Err(IoError("InvalidData",
                                       "Invalid magic bytes: expected {:?}, got {:?}",
                                       <<MAGIC, m.bytes>>)),
                r |-> m.r]
          ELSE
    The({ IF ~v.ok THEN [result |-> Err(UnexpectedEof), r |-> v.r]
          ELSE
    The({ IF ~c.ok THEN [result |-> Err(UnexpectedEof), r |-> c.r]
          ELSE
    The({ IF ~d.ok THEN [result |-> Err(UnexpectedEof), r |-> d.r]
          ELSE [result |-> Ok(SegmentHeader(v.value, c.value, d.value)), r |-> d.r] :
             d \in {read_u32(c.r)} }) :
             c \in {read_u32(v.r)} }) :
             v \in {read_u32(m.r)} }) :
             m \in {read_exact(r, 4)} })

\* SegmentHeader::read: the magic, then the version, then count and dimension
SegmentHeader_read(r) ==
    \* let mut magic = [0u8; 4]; r.read_exact(&mut magic)?;
    The({ IF ~m.ok THEN [result |-> Err(UnexpectedEof), r |-> m.r]
          ELSE IF m.bytes # MAGIC
          THEN [result |-> Err(IoError("InvalidData",
                                       "Invalid magic bytes: expected {:?}, got {:?}",
                                       <<MAGIC, m.bytes>>)),
                r |-> m.r]
          ELSE
    \* let version = read_u32(r)?;
    The({ IF ~v.ok THEN [result |-> Err(UnexpectedEof), r |-> v.r]
          ELSE IF v.value # AsU32(VERSION)
          THEN [result |-> Err(IoError("InvalidData",
                                       "Unsupported version: expected {}, got {}",
                                       <<AsU32(VERSION), v.value>>)),
                r |-> v.r]
          ELSE
    \* let count = read_u32(r)?; let dimension = read_u32(r)?;
    The({ IF ~c.ok THEN [result |-> Err(UnexpectedEof), r |-> c.r]
          ELSE
    The({ IF ~d.ok THEN [result |-> Err(UnexpectedEof), r |-> d.r]
          ELSE [result |-> Ok(SegmentHeader(v.value, c.value, d.value)), r |-> d.r] :
             d \in {read_u32(c.r)} }) :
             c \in {read_u32(v.r)} }) :
             v \in {read_u32(m.r)} }) :
             m \in {read_exact(r, 4)} })

RECURSIVE read_components(_, _, _)
\* the inner loop of the readers: `for _ in 0..header.dimension` read_f32
read_components(r, dim, data) ==
    IF ~Less(AsU32(Len(data)), dim) THEN [ok |-> TRUE, data |-> data, r |-> r]
    ELSE The({ IF ~x.ok THEN [ok |-> FALSE, data |-> data, r |-> x.r]
               ELSE read_components(x.r, dim, Append(data, x.value)) :
                  x \in {read_f32(r)} })

RECURSIVE read_vectors(_, _, _, _)
\* the outer loop of read_segment: `want` vectors of `dim` components
read_vectors(r, want, dim, acc) ==
    IF ~Less(AsU32(Len(acc)), want) THEN Ok(acc)
    ELSE The({ IF ~x.ok THEN Err(UnexpectedEof)
               ELSE read_vectors(x.r, want, dim, Append(acc, Vector_new(x.data))) :
                  x \in {read_components(r, dim, <<>>)} })

\* read_segment as one function of the file's bytes: what a call returns that
\* no writer disturbs
read_segment(f) ==
    The({ IF x.result.kind = "Err" THEN x.result
          ELSE read_vectors(x.r, x.result.value.count, x.result.value.dimension, <<>>) :
             x \in {SegmentHeader_read([file |-> f, off |-> Zero64, buf |-> <<>>,
                                        buffered |-> TRUE])} })

\* ---------------------------------------------------------------------------
\* Inputs
\* ---------------------------------------------------------------------------

\* the vectors a caller may hand to write_segment
InputVectors ==
    { Vector_new(d) : d \in UNION { [1..n -> Floats] : n \in 0..MaxDim } }

InputSegments == UNION { [1..n -> InputVectors] : n \in 0..MaxCount }

\* the u32 arguments a caller may pass: the small ones, and the largest two
Args32 == { AsU32(n) : n \in 0..(MaxCount + 1) } \cup { <<255, 255, 255, 254>>, U32Max }

ReadCalls ==
    { [op |-> "read_segment"], [op |-> "read_segment_header"] }
    \cup { [op |-> "read_vector_at", index |-> i] : i \in Args32 }
    \cup { [op |-> "read_vectors_range", start |-> a, count |-> c] :
              a \in Args32, c \in Args32 }

\* Files that were not written by write_segment (another program's, or a
\* damaged one): the 16 bytes of the layout with a right or wrong magic and
\* version and a small or huge count and dimension, followed by some bytes of
\* float data, or cut short within the header.
LayoutBytes(m, v, c, d) == m \o to_le_bytes(v) \o to_le_bytes(c) \o to_le_bytes(d)

PayloadBytes == <<0, 0, 128, 63, 0, 0, 32, 64, 0, 0, 128, 63, 0, 0, 32, 64, 7, 7>>

Geometry32 == { AsU32(n) : n \in 0..MaxCount } \cup { U32Max }

ForeignFiles ==
    { LayoutBytes(MAGIC, AsU32(VERSION), c, d) \o SubSeq(PayloadBytes, 1, n) :
          c \in Geometry32, d \in Geometry32, n \in {0, 4, 6, 8, 16, 18} }
    \cup { SubSeq(LayoutBytes(m, v, AsU32(1), AsU32(1)) \o SubSeq(PayloadBytes, 1, 4), 1, n) :
          m \in {MAGIC, <<86, 69, 67, 88>>, <<0, 0, 0, 0>>},
          v \in {AsU32(VERSION), AsU32(2), AsU32(0), <<1, 0, 0, 0>>},
          n \in {0, 3, 4, 7, 8, 15, 16, 20} }

\* ---------------------------------------------------------------------------
\* State
\* ---------------------------------------------------------------------------

VARIABLES
    exists,     \* there is a file at the path
    file,       \* its bytes
    pc,         \* where each call stands
    call,       \* the operation each caller is in, with its arguments
    loc,        \* the locals of each call: handle, buffer, header, progress
    result,     \* what a finished call returned
    lastOk      \* the write_segment that last returned, while the file has not
                \* been touched since: its input if it returned Ok, and whether
                \* it replaced a longer file; or that it returned an error

\* the HTTP server (post-05-async-axum/code/main-server.rs)
VARIABLES
    state,      \* AppState behind the RwLock: vectors and request_count
    lock,       \* the RwLock: the task that holds it for writing, the tasks
                \* that hold it for reading
    task,       \* the handler tasks: request, position, locals, response
    history     \* for each id, the vectors that handler_insert has stored
                \* under it, in the order of the insertions

serverVars == <<state, lock, task, history>>

segmentVars == <<exists, file, pc, call, loc, result, lastOk>>

vars == <<exists, file, pc, call, loc, result, lastOk, state, lock, task, history>>

\* the handler tasks that run at once, each serving one request
MaxTasks == 3

Tasks == 1..MaxTasks

\* the ids of requests: the empty one, which handler_insert refuses, and two
\* others
Ids == {"", "a", "b"}

\* the vectors of requests: Vector { data, metadata }, the metadata defaulted
ServerVectors ==
    { [data |-> d, metadata |-> {}] :
         d \in { <<>>, << <<63, 128, 0, 0>> >>, << <<127, 192, 0, 0>> >> } }

\* POST /api/search, POST /api/vectors, GET /api/vectors/:id, GET /api/stats
Requests ==
    { [route |-> "search", query |-> v] : v \in ServerVectors }
    \cup { [route |-> "insert", id |-> i, vector |-> v] : i \in Ids, v \in ServerVectors }
    \cup { [route |-> "get", id |-> i] : i \in Ids \ {""} }
    \cup { [route |-> "stats"] }

\* AppState::default()
AppState_default == [vectors |-> [i \in {} |-> {}], request_count |-> 0]

\* RwLock::new: nobody holds the lock
Unlocked == [writer |-> 0, readers |-> {}]

NoRequest == [route |-> "none"]

NoResponse == [status |-> 0]

\* tmp: the value read by `request_count += 1`; floor: how many vectors had
\* been stored under the id when a get request arrived; seen: how many when
\* the handler looked it up
IdleTask ==
    [pc |-> "idle", req |-> NoRequest, tmp |-> 0, floor |-> 0, seen |-> 0,
     response |-> NoResponse]

InitServer ==
    /\ state = AppState_default
    /\ lock = Unlocked
    /\ task = [t \in Tasks |-> IdleTask]
    /\ history = [i \in Ids |-> <<>>]

\* the callers; the sequential specification runs the first one only
Procs == {1, 2}

SeqProcs == {1}

NoCall == [op |-> "none"]

NoHeader == SegmentHeader(<<0, 0, 0, 0>>, <<0, 0, 0, 0>>, <<0, 0, 0, 0>>)

Unwritten == [valid |-> FALSE, vectors |-> <<>>, over |-> FALSE, failed |-> FALSE]

\* open: the call holds a file handle; pos: a writer's offset; off: a
\* reader's offset; buf: the BufWriter's or BufReader's buffer; i: the
\* vectors written or read so far; acc: the vectors read; old: the length of
\* the file that File::create replaced; touched: the offsets of the bytes that
\* the call's handle has read from the file; seeks: the seeks it has made
IdleLoc ==
    [open |-> FALSE, pos |-> 0, off |-> Zero64, buf |-> <<>>,
     header |-> NoHeader, i |-> 0, acc |-> <<>>, old |-> 0,
     touched |-> {}, seeks |-> 0]

Init ==
    /\ exists = FALSE
    /\ file = <<>>
    /\ pc = [p \in Procs |-> "idle"]
    /\ call = [p \in Procs |-> NoCall]
    /\ loc = [p \in Procs |-> IdleLoc]
    /\ result = [p \in Procs |-> NoResult]
    /\ lastOk = Unwritten
    /\ InitServer

\* the BufWriter of call p over the file
Writer(p) == [file |-> file, pos |-> loc[p].pos, buf |-> loc[p].buf]

\* a faulty variant: every reader wraps its File in a BufReader
Reader_buffered(p) ==
    [file |-> file, off |-> loc[p].off, buf |-> loc[p].buf, buffered |-> TRUE]

\* the reader of call p over the file
Reader(p) ==
    [file |-> file, off |-> loc[p].off, buf |-> loc[p].buf,
     buffered |-> call[p].op \in {"read_segment", "read_segment_header"}]

\* the offsets of the bytes a handle has read while it went from offset a to
\* offset b (read moves the offset by the bytes it returns)
Span(a, b) == IF a = b THEN {} ELSE ToNat(a)..(ToNat(b) - 1)

\* a faulty variant: the handle is kept (mem::forget, or a handle stored away)
File_forget == TRUE

\* whether the call's handle is open once its File has gone out of scope, as
\* it does at every return and `?` of the five operations: drop closes it
File_drop == FALSE

\* the call returns r; its handle and buffer are dropped
Finish(p, r) ==
    /\ pc' = [pc EXCEPT ![p] = "done"]
    /\ result' = [result EXCEPT ![p] = r]

\* ---------------------------------------------------------------------------
\* write_segment
\* ---------------------------------------------------------------------------

\* a faulty variant: the path is opened under an exclusive lock
OpenGranted_exclusive(p) == \A q \in Procs \ {p} : ~loc[q].open

\* File::create and File::open take no lock on the path (no flock, no
\* O_EXCL): the open is granted whoever else holds a handle on the file
OpenGranted(p) == TRUE

\* a faulty variant: the file is opened for writing without being truncated
File_create_keep(f) == f

\* File::create: the file at the path is created, or truncated if it is there
File_create(f) == <<>>

\* a faulty variant: unwrap_or(1)
FirstDimensionOrOne(vectors) == IF vectors = <<>> THEN 1 ELSE dimension(vectors[1])

\* vectors.first().map(|v| v.dimension()).unwrap_or(0)
FirstDimension(vectors) == IF vectors = <<>> THEN 0 ELSE dimension(vectors[1])

\* a faulty variant: the index reported from 1
DimensionMismatchOneBased(i, got, expected) ==
    IoError("InvalidData", "Vector {} has dimension {}, expected {}",
            <<i + 1, got, expected>>)

\* the error of a vector whose dimension is not the header's
DimensionMismatch(i, got, expected) ==
    IoError("InvalidData", "Vector {} has dimension {}, expected {}",
            <<i, got, expected>>)

\* File::create truncates or creates the file; the header is made from the
\* input's length and its first vector's dimension
write_segment_create(p, vectors) ==
    /\ pc[p] = "idle"
    /\ OpenGranted(p)
    /\ exists' = TRUE
    /\ file' = File_create(file)
    /\ call' = [call EXCEPT ![p] = [op |-> "write_segment", vectors |-> vectors]]
    /\ loc' = [loc EXCEPT ![p] =
                 [IdleLoc EXCEPT
                     !.open = TRUE,
                     !.old = IF exists THEN Len(file) ELSE 0,
                     !.header = SegmentHeader(
                         AsU32(VERSION),
                         AsU32(Len(vectors)),
                         AsU32(FirstDimension(vectors)))]]
    /\ pc' = [pc EXCEPT ![p] = "w_header"]
    /\ lastOk' = Unwritten
    /\ UNCHANGED result
    /\ UNCHANGED serverVars

\* header.write(&mut writer)
write_segment_header(p) ==
    /\ pc[p] = "w_header"
    /\ \E w \in {SegmentHeader_write(loc[p].header, Writer(p))} :
           /\ file' = w.file
           /\ loc' = [loc EXCEPT ![p].pos = w.pos, ![p].buf = w.buf]
    /\ pc' = [pc EXCEPT ![p] = "w_vectors"]
    /\ lastOk' = IF file' = file THEN lastOk ELSE Unwritten
    /\ UNCHANGED <<exists, call, result>>
    /\ UNCHANGED serverVars

\* one iteration of the loop over the vectors, the dimension being right
write_segment_vector(p) ==
    /\ pc[p] = "w_vectors"
    /\ loc[p].i < Len(call[p].vectors)
    /\ \E vec \in {call[p].vectors[loc[p].i + 1]} :
       \E w \in {write_components(Writer(p), vec.data)} :
           /\ AsU32(dimension(vec)) = loc[p].header.dimension
           /\ file' = w.file
           /\ loc' = [loc EXCEPT ![p].pos = w.pos, ![p].buf = w.buf,
                                 ![p].i = loc[p].i + 1]
    /\ lastOk' = IF file' = file THEN lastOk ELSE Unwritten
    /\ UNCHANGED <<exists, pc, call, result>>
    /\ UNCHANGED serverVars

\* one iteration of the loop, the dimension being wrong: the error is
\* returned, and dropping the BufWriter flushes what it holds
write_segment_mismatch(p) ==
    /\ pc[p] = "w_vectors"
    /\ loc[p].i < Len(call[p].vectors)
    /\ \E vec \in {call[p].vectors[loc[p].i + 1]} :
       \E w \in {flush_buf(Writer(p))} :
           /\ AsU32(dimension(vec)) # loc[p].header.dimension
           /\ file' = w.file
           /\ loc' = [loc EXCEPT ![p].pos = w.pos, ![p].buf = w.buf,
                                 ![p].open = File_drop]
           /\ Finish(p, Err(DimensionMismatch(loc[p].i, dimension(vec),
                                               loc[p].header.dimension)))
    /\ lastOk' = [Unwritten EXCEPT !.failed = TRUE]
    /\ UNCHANGED <<exists, call>>
    /\ UNCHANGED serverVars

\* one iteration of the loop, the dimension being wrong and the device full:
\* the error is returned, and the flush of the dropped BufWriter fails, which
\* drop ignores; what the buffer held is lost
write_segment_mismatch_unflushed(p) ==
    /\ pc[p] = "w_vectors"
    /\ loc[p].i < Len(call[p].vectors)
    /\ loc[p].buf # <<>>
    /\ \E vec \in {call[p].vectors[loc[p].i + 1]} :
           /\ AsU32(dimension(vec)) # loc[p].header.dimension
           /\ Finish(p, Err(DimensionMismatch(loc[p].i, dimension(vec),
                                               loc[p].header.dimension)))
    /\ loc' = [loc EXCEPT ![p].open = File_drop]
    /\ lastOk' = [Unwritten EXCEPT !.failed = TRUE]
    /\ UNCHANGED <<exists, file, call>>
    /\ UNCHANGED serverVars

\* writer.flush() after the loop, and Ok(())
write_segment_flush(p) ==
    /\ pc[p] = "w_vectors"
    /\ loc[p].i = Len(call[p].vectors)
    /\ \E w \in {flush_buf(Writer(p))} :
           /\ file' = w.file
           /\ loc' = [loc EXCEPT ![p].pos = w.pos, ![p].buf = w.buf,
                                 ![p].open = File_drop]
    /\ Finish(p, Ok("unit"))
    /\ lastOk' = [Unwritten EXCEPT !.valid = TRUE, !.vectors = call[p].vectors,
                                  !.over = loc[p].old > Len(file')]
    /\ UNCHANGED <<exists, call>>
    /\ UNCHANGED serverVars

\* writer.flush() after the loop, the device being full: nothing more is
\* written, `?` returns the error, and the flush of the dropped BufWriter
\* fails like the first
write_segment_flush_fails(p) ==
    /\ pc[p] = "w_vectors"
    /\ loc[p].i = Len(call[p].vectors)
    /\ loc[p].buf # <<>>
    /\ loc' = [loc EXCEPT ![p].open = File_drop]
    /\ Finish(p, Err(StorageFull))
    /\ lastOk' = [Unwritten EXCEPT !.failed = TRUE]
    /\ UNCHANGED <<exists, file, call>>
    /\ UNCHANGED serverVars

\* ---------------------------------------------------------------------------
\* The readers: read_segment, read_segment_header, read_vector_at,
\* read_vectors_range
\* ---------------------------------------------------------------------------

\* File::open, the file being there
open(p, c) ==
    /\ pc[p] = "idle"
    /\ exists
    /\ OpenGranted(p)
    /\ call' = [call EXCEPT ![p] = c]
    /\ loc' = [loc EXCEPT ![p] = [IdleLoc EXCEPT !.open = TRUE]]
    /\ pc' = [pc EXCEPT ![p] = "r_header"]
    /\ UNCHANGED <<exists, file, result, lastOk>>
    /\ UNCHANGED serverVars

\* File::open, there being no file: `?` returns the error
open_fails(p, c) ==
    /\ pc[p] = "idle"
    /\ ~exists
    /\ call' = [call EXCEPT ![p] = c]
    /\ Finish(p, Err(NotFound))
    /\ UNCHANGED <<exists, file, loc, lastOk>>
    /\ UNCHANGED serverVars

\* SegmentHeader::read at the start of each reader; read_segment_header
\* returns what it gives
read_header(p) ==
    /\ pc[p] = "r_header"
    /\ \E x \in {SegmentHeader_read(Reader(p))} :
       \E t \in {loc[p].touched \cup Span(loc[p].off, x.r.off)} :
           IF x.result.kind = "Err"
           THEN /\ Finish(p, x.result)
                /\ loc' = [loc EXCEPT ![p].open = File_drop, ![p].touched = t]
           ELSE IF call[p].op = "read_segment_header"
           THEN /\ Finish(p, x.result)
                /\ loc' = [loc EXCEPT ![p].open = File_drop, ![p].touched = t,
                                      ![p].header = x.result.value]
           ELSE /\ loc' = [loc EXCEPT ![p].header = x.result.value,
                                      ![p].touched = t,
                                      ![p].off = x.r.off, ![p].buf = x.r.buf]
                /\ pc' = [pc EXCEPT ![p] =
                            IF call[p].op = "read_segment" THEN "r_vectors"
                            ELSE "r_check"]
                /\ UNCHANGED result
    /\ UNCHANGED <<exists, file, call, lastOk>>
    /\ UNCHANGED serverVars

\* the offset lseek refuses: one that is negative as an i64
Unseekable(offset) == offset[1] >= 128

InvalidSeek == IoError("InvalidInput", "Invalid argument", <<>>)

\* file.seek(SeekFrom::Start(offset)), and on to the data
Seek(p, offset) ==
    IF Unseekable(offset)
    THEN /\ Finish(p, Err(InvalidSeek))
         /\ loc' = [loc EXCEPT ![p].open = File_drop]
    ELSE /\ loc' = [loc EXCEPT ![p].off = offset, ![p].seeks = loc[p].seeks + 1]
         /\ pc' = [pc EXCEPT ![p] = "r_vectors"]
         /\ UNCHANGED result

\* a faulty variant: `index > header.count` being the failure
IndexInBoundsInclusive(index, h) == LessEq(index, h.count)

\* read_vector_at's test of the index, `index >= header.count` being the
\* failure
IndexInBounds(index, h) == Less(index, h.count)

\* read_vector_at: `index >= header.count` returns the error
read_vector_at_bounds(p) ==
    /\ pc[p] = "r_check"
    /\ call[p].op = "read_vector_at"
    /\ ~IndexInBounds(call[p].index, loc[p].header)
    /\ Finish(p, Err(IoError("InvalidInput", "Index {} out of bounds (count: {})",
                             <<call[p].index, loc[p].header.count>>)))
    /\ loc' = [loc EXCEPT ![p].open = File_drop]
    /\ UNCHANGED <<exists, file, call, lastOk>>
    /\ UNCHANGED serverVars

\* read_vector_at: the index is in bounds; seek to header.vector_offset(index)
\* (a product that overflows wraps around when overflow checks are off)
read_vector_at_seek(p) ==
    /\ pc[p] = "r_check"
    /\ call[p].op = "read_vector_at"
    /\ IndexInBounds(call[p].index, loc[p].header)
    /\ Seek(p, vector_offset(loc[p].header, call[p].index).value)
    /\ UNCHANGED <<exists, file, call, lastOk>>
    /\ UNCHANGED serverVars

\* vector_offset overflows and overflow checks are on: the thread panics
vector_offset_panics(p) ==
    /\ pc[p] = "r_check"
    /\ \/ /\ call[p].op = "read_vector_at"
          /\ IndexInBounds(call[p].index, loc[p].header)
          /\ vector_offset(loc[p].header, call[p].index).overflow
       \/ /\ call[p].op = "read_vectors_range"
          /\ ~AddOverflows(call[p].start, call[p].count)
          /\ LessEq(WrappingAdd(call[p].start, call[p].count), loc[p].header.count)
          /\ vector_offset(loc[p].header, call[p].start).overflow
    /\ Finish(p, Panic("attempt to multiply with overflow"))
    /\ loc' = [loc EXCEPT ![p].open = File_drop]
    /\ UNCHANGED <<exists, file, call, lastOk>>
    /\ UNCHANGED serverVars

\* read_vectors_range: `start + count`, a u32 sum, overflows and overflow
\* checks are on: the thread panics
read_vectors_range_panics(p) ==
    /\ pc[p] = "r_check"
    /\ call[p].op = "read_vectors_range"
    /\ AddOverflows(call[p].start, call[p].count)
    /\ Finish(p, Panic("attempt to add with overflow"))
    /\ loc' = [loc EXCEPT ![p].open = File_drop]
    /\ UNCHANGED <<exists, file, call, lastOk>>
    /\ UNCHANGED serverVars

\* read_vectors_range: `start + count > header.count` returns the error (the
\* sum wraps around when overflow checks are off)
read_vectors_range_bounds(p) ==
    /\ pc[p] = "r_check"
    /\ call[p].op = "read_vectors_range"
    /\ Less(loc[p].header.count, WrappingAdd(call[p].start, call[p].count))
    /\ Finish(p, Err(IoError("InvalidInput", "Range {}..{} out of bounds (count: {})",
                             <<call[p].start,
                               WrappingAdd(call[p].start, call[p].count),
                               loc[p].header.count>>)))
    /\ loc' = [loc EXCEPT ![p].open = File_drop]
    /\ UNCHANGED <<exists, file, call, lastOk>>
    /\ UNCHANGED serverVars

\* read_vectors_range: the range passes; seek to header.vector_offset(start)
read_vectors_range_seek(p) ==
    /\ pc[p] = "r_check"
    /\ call[p].op = "read_vectors_range"
    /\ ~Less(loc[p].header.count, WrappingAdd(call[p].start, call[p].count))
    /\ Seek(p, vector_offset(loc[p].header, call[p].start).value)
    /\ UNCHANGED <<exists, file, call, lastOk>>
    /\ UNCHANGED serverVars

\* a faulty variant: read_vectors_range reads to the end of the segment
WantedAll(p) ==
    IF call[p].op = "read_vector_at" THEN AsU32(1) ELSE loc[p].header.count

\* the number of vectors the call is to read
Wanted(p) ==
    IF call[p].op = "read_segment" THEN loc[p].header.count
    ELSE IF call[p].op = "read_vectors_range" THEN call[p].count
    ELSE AsU32(1)

\* more vectors of no components than the model writes out one by one
ManyEmpty(p) ==
    /\ loc[p].header.dimension = AsU32(0)
    /\ Less(AsU32(MaxCount + 2), Wanted(p))

\* one vector is read: `dimension` times read_f32, then Vector::new; a read
\* that fails returns UnexpectedEof
read_vector(p) ==
    /\ pc[p] = "r_vectors"
    /\ Less(AsU32(loc[p].i), Wanted(p))
    /\ ~ManyEmpty(p)
    /\ \E x \in {read_components(Reader(p), loc[p].header.dimension, <<>>)} :
       \E t \in {loc[p].touched \cup Span(loc[p].off, x.r.off)} :
           IF x.ok
           THEN /\ loc' = [loc EXCEPT ![p].off = x.r.off, ![p].buf = x.r.buf,
                                      ![p].touched = t,
                                      ![p].i = loc[p].i + 1,
                                      ![p].acc = Append(loc[p].acc, Vector_new(x.data))]
                /\ UNCHANGED <<pc, result>>
           ELSE /\ Finish(p, Err(UnexpectedEof))
                /\ loc' = [loc EXCEPT ![p].open = File_drop, ![p].touched = t]
    /\ UNCHANGED <<exists, file, call, lastOk>>
    /\ UNCHANGED serverVars

\* the loop over vectors of dimension 0 reads nothing: it ends with as many
\* empty vectors as were wanted (held as their number where that is huge)
read_empty_vectors(p) ==
    /\ pc[p] = "r_vectors"
    /\ ManyEmpty(p)
    /\ Finish(p, Ok([empty_vectors |-> Wanted(p)]))
    /\ loc' = [loc EXCEPT ![p].open = File_drop]
    /\ UNCHANGED <<exists, file, call, lastOk>>
    /\ UNCHANGED serverVars

\* a capacity the allocator may refuse: 2^31 elements and more, which is 8 GiB
\* of f32 and 144 GiB of Vector
MayExhaustMemory(n) == n[1] >= 128

\* Vec::with_capacity(header.count as usize) or (count as usize) before the
\* loop, or Vec::with_capacity(header.dimension as usize) inside it, for a
\* capacity the allocator refuses: the process is aborted. (Where the
\* allocator grants it, the call goes on.)
with_capacity_aborts(p) ==
    /\ pc[p] = "r_vectors"
    /\ \/ /\ call[p].op # "read_vector_at"
          /\ loc[p].i = 0
          /\ MayExhaustMemory(Wanted(p))
       \/ /\ Less(AsU32(loc[p].i), Wanted(p))
          /\ MayExhaustMemory(loc[p].header.dimension)
    /\ Finish(p, Abort("memory allocation failed"))
    /\ loc' = [loc EXCEPT ![p].open = File_drop]
    /\ UNCHANGED <<exists, file, call, lastOk>>
    /\ UNCHANGED serverVars

\* the loop is over: Ok(vectors), or Ok(the vector) from read_vector_at
read_return(p) ==
    /\ pc[p] = "r_vectors"
    /\ ~Less(AsU32(loc[p].i), Wanted(p))
    /\ Finish(p, Ok(IF call[p].op = "read_vector_at" THEN loc[p].acc[1]
                    ELSE loc[p].acc))
    /\ loc' = [loc EXCEPT ![p].open = File_drop]
    /\ UNCHANGED <<exists, file, call, lastOk>>
    /\ UNCHANGED serverVars

\* ---------------------------------------------------------------------------
\* Between calls
\* ---------------------------------------------------------------------------

\* the caller takes the result; nothing of the call remains
Return(p) ==
    /\ pc[p] = "done"
    /\ pc' = [pc EXCEPT ![p] = "idle"]
    /\ call' = [call EXCEPT ![p] = NoCall]
    /\ loc' = [loc EXCEPT ![p] = IdleLoc]
    /\ result' = [result EXCEPT ![p] = NoResult]
    /\ UNCHANGED <<exists, file, lastOk>>
    /\ UNCHANGED serverVars

\* something else puts a file at the path while no call runs
InstallFile(f) ==
    /\ \A p \in Procs : pc[p] = "idle"
    /\ exists' = TRUE
    /\ file' = f
    /\ lastOk' = Unwritten
    /\ UNCHANGED <<pc, call, loc, result>>
    /\ UNCHANGED serverVars

\* ---------------------------------------------------------------------------
\* The readers as functions of the file: what a call that no writer disturbs
\* may end with (more than one outcome where the build or the allocator
\* decides)
\* ---------------------------------------------------------------------------

\* the loop over the vectors, with the allocations before and inside it
read_loop_outcomes(r, op, want, dim) ==
    (IF \/ op # "read_vector_at" /\ MayExhaustMemory(want)
        \/ Less(AsU32(0), want) /\ MayExhaustMemory(dim)
     THEN {Abort("memory allocation failed")} ELSE {})
    \cup
    (IF dim = AsU32(0) /\ Less(AsU32(MaxCount + 2), want)
     THEN {Ok([empty_vectors |-> want])}
     ELSE { IF x.kind = "Ok" /\ op = "read_vector_at" THEN Ok(x.value[1]) ELSE x :
               x \in {read_vectors(r, want, dim, <<>>)} })

\* file.seek(SeekFrom::Start(offset.value)) and the loop, or the panic of the
\* offset's product
read_seek_outcomes(r, op, offset, want, dim) ==
    (IF offset.overflow THEN {Panic("attempt to multiply with overflow")} ELSE {})
    \cup
    (IF Unseekable(offset.value) THEN {Err(InvalidSeek)}
     ELSE read_loop_outcomes([r EXCEPT !.off = offset.value], op, want, dim))

\* read_segment, read_segment_header, read_vector_at and read_vectors_range
\* of the file f
read_outcomes(f, c) ==
    UNION { IF x.result.kind = "Err" \/ c.op = "read_segment_header" THEN {x.result}
            ELSE IF c.op = "read_segment"
            THEN read_loop_outcomes(x.r, c.op, x.result.value.count,
                                    x.result.value.dimension)
            ELSE IF c.op = "read_vector_at"
            THEN IF ~IndexInBounds(c.index, x.result.value)
                 THEN {Err(IoError("InvalidInput", "Index {} out of bounds (count: {})",
                                   <<c.index, x.result.value.count>>))}
                 ELSE read_seek_outcomes(x.r, c.op, vector_offset(x.result.value, c.index),
                                         AsU32(1), x.result.value.dimension)
            ELSE (IF AddOverflows(c.start, c.count)
                  THEN {Panic("attempt to add with overflow")} ELSE {})
                 \cup
                 (IF Less(x.result.value.count, WrappingAdd(c.start, c.count))
                  THEN {Err(IoError("InvalidInput", "Range {}..{} out of bounds (count: {})",
                                    <<c.start, WrappingAdd(c.start, c.count),
                                      x.result.value.count>>))}
                  ELSE read_seek_outcomes(x.r, c.op, vector_offset(x.result.value, c.start),
                                          c.count, x.result.value.dimension)) :
               x \in {SegmentHeader_read(
                         [file |-> f, off |-> Zero64, buf |-> <<>>,
                          buffered |-> c.op \in {"read_segment", "read_segment_header"}])} }

\* the capacity of `vectors`: Vec::with_capacity(header.count as usize) in
\* read_segment, Vec::with_capacity(count as usize) in read_vectors_range
vectors_capacity(p) == Wanted(p)

\* the capacity of `data`: Vec::with_capacity(header.dimension as usize)
data_capacity(p) == loc[p].header.dimension

Step(p) ==
    \/ \E v \in InputSegments : write_segment_create(p, v)
    \/ write_segment_header(p)
    \/ write_segment_vector(p)
    \/ write_segment_mismatch(p)
    \/ write_segment_mismatch_unflushed(p)
    \/ write_segment_flush(p)
    \/ write_segment_flush_fails(p)
    \/ \E c \in ReadCalls : open(p, c)
    \/ \E c \in ReadCalls : open_fails(p, c)
    \/ read_header(p)
    \/ read_vector_at_bounds(p)
    \/ read_vector_at_seek(p)
    \/ vector_offset_panics(p)
    \/ read_vectors_range_panics(p)
    \/ read_vectors_range_bounds(p)
    \/ read_vectors_range_seek(p)
    \/ read_vector(p)
    \/ read_empty_vectors(p)
    \/ with_capacity_aborts(p)
    \/ read_return(p)
    \/ Return(p)

\* calls one after the other
Next ==
    \/ \E p \in SeqProcs : Step(p)
    \/ \E f \in ForeignFiles : InstallFile(f)

Spec == Init /\ [][Next]_vars

\* ---------------------------------------------------------------------------
\* Two callers on one path
\*
\* Both callers run at once, each step of a call (an open, a decoded header, a
\* vector read, a vector written, a flush) being one step of the interleaving.
\* The inputs are two segments of 24 bytes of different geometry, A = [[1.0,
\* NaN]] and B = [[NaN], [1.0]], and three reads.
\* ---------------------------------------------------------------------------

RaceSegments ==
    { << Vector_new(<< <<63, 128, 0, 0>>, <<127, 192, 0, 0>> >>) >>,
      << Vector_new(<< <<127, 192, 0, 0>> >>), Vector_new(<< <<63, 128, 0, 0>> >>) >> }

RaceReadCalls ==
    { [op |-> "read_segment"],
      [op |-> "read_vector_at", index |-> AsU32(0)],
      [op |-> "read_vector_at", index |-> AsU32(1)] }

RaceStep(p) ==
    \/ \E v \in RaceSegments : write_segment_create(p, v)
    \/ write_segment_header(p)
    \/ write_segment_vector(p)
    \/ write_segment_flush(p)
    \/ \E c \in RaceReadCalls : open(p, c)
    \/ \E c \in RaceReadCalls : open_fails(p, c)
    \/ read_header(p)
    \/ read_vector_at_bounds(p)
    \/ read_vector_at_seek(p)
    \/ read_vector(p)
    \/ read_return(p)
    \/ Return(p)

NextRace == \E p \in Procs : RaceStep(p)

SpecRace == Init /\ [][NextRace]_vars

\* ---------------------------------------------------------------------------
\* The header by itself: SegmentHeader::write into an empty file through a
\* BufWriter, then SegmentHeader::read of what was written, for headers whose
\* count and dimension have all four bytes in use
\* ---------------------------------------------------------------------------

\* u32 values: 0, 1, 255, 256, 0x01020304, 2^31, 2^32 - 1
HeaderValues ==
    { <<0, 0, 0, 0>>, <<0, 0, 0, 1>>, <<0, 0, 0, 255>>, <<0, 0, 1, 0>>,
      <<1, 2, 3, 4>>, <<128, 0, 0, 0>>, U32Max }

\* the headers that are written: of the supported version, and of the next
HeaderInputs ==
    { SegmentHeader(AsU32(v), c, d) :
          v \in {VERSION, VERSION + 1}, c \in HeaderValues, d \in HeaderValues }

InitHeader ==
    /\ exists = FALSE
    /\ file = <<>>
    /\ pc = [p \in Procs |-> IF p = 1 THEN "h_write" ELSE "idle"]
    /\ \E h \in HeaderInputs :
          call = [p \in Procs |-> IF p = 1 THEN [op |-> "header", header |-> h]
                                  ELSE NoCall]
    /\ loc = [p \in Procs |-> IdleLoc]
    /\ result = [p \in Procs |-> NoResult]
    /\ lastOk = Unwritten
    /\ InitServer

\* header.write(&mut writer) and the flush of the writer
header_write(p) ==
    /\ pc[p] = "h_write"
    /\ exists' = TRUE
    /\ file' = flush_buf(SegmentHeader_write(call[p].header,
                                             [file |-> File_create(file),
                                              pos |-> 0, buf |-> <<>>])).file
    /\ pc' = [pc EXCEPT ![p] = "h_read"]
    /\ UNCHANGED <<call, loc, result, lastOk>>
    /\ UNCHANGED serverVars

\* SegmentHeader::read(&mut reader) of the file written
header_read(p) ==
    /\ pc[p] = "h_read"
    /\ Finish(p, SegmentHeader_read([file |-> file, off |-> Zero64, buf |-> <<>>,
                                     buffered |-> TRUE]).result)
    /\ UNCHANGED <<exists, file, call, loc, lastOk>>
    /\ UNCHANGED serverVars

NextHeader == \E p \in SeqProcs : header_write(p) \/ header_read(p)

SpecHeader == InitHeader /\ [][NextHeader]_vars

\* ---------------------------------------------------------------------------
\* The offsets by themselves: SegmentHeader::vector_offset and file_size for
\* headers and indexes over the whole u32 range
\* ---------------------------------------------------------------------------

InitOffsets ==
    /\ exists = FALSE
    /\ file = <<>>
    /\ pc = [p \in Procs |-> IF p = 1 THEN "o_compute" ELSE "idle"]
    /\ \E c \in HeaderValues : \E d \in HeaderValues : \E i \in HeaderValues :
          call = [p \in Procs |->
                    IF p = 1
                    THEN [op |-> "offsets",
                          header |-> SegmentHeader(AsU32(VERSION), c, d),
                          index |-> i]
                    ELSE NoCall]
    /\ loc = [p \in Procs |-> IdleLoc]
    /\ result = [p \in Procs |-> NoResult]
    /\ lastOk = Unwritten
    /\ InitServer

\* header.vector_offset(index) and header.file_size(): the u64 values (the
\* products wrapped around where they overflow and overflow checks are off)
header_offsets(p) ==
    /\ pc[p] = "o_compute"
    /\ Finish(p, Ok([vector_offset |-> vector_offset(call[p].header, call[p].index).value,
                     file_size     |-> file_size(call[p].header).value]))
    /\ UNCHANGED <<exists, file, call, loc, lastOk>>
    /\ UNCHANGED serverVars

\* one of the two products overflows and overflow checks are on: the thread
\* panics
header_offsets_panics(p) ==
    /\ pc[p] = "o_compute"
    /\ \/ vector_offset(call[p].header, call[p].index).overflow
       \/ file_size(call[p].header).overflow
    /\ Finish(p, Panic("attempt to multiply with overflow"))
    /\ UNCHANGED <<exists, file, call, loc, lastOk>>
    /\ UNCHANGED serverVars

NextOffsets == \E p \in SeqProcs : header_offsets(p) \/ header_offsets_panics(p)

SpecOffsets == InitOffsets /\ [][NextOffsets]_vars

\* ---------------------------------------------------------------------------
\* A write over a segment: the second caller writes a segment and keeps its
\* input and its result; after that the first caller writes, and reads the
\* file with read_segment
\* ---------------------------------------------------------------------------

OverwriteSegments == UNION { [1..n -> InputVectors] : n \in 0..(MaxCount - 1) }

\* the second caller's write has returned Ok
SegmentHeld == pc[2] = "done" /\ result[2].kind = "Ok"

OverwriteStep(p) ==
    \/ write_segment_header(p)
    \/ write_segment_vector(p)
    \/ write_segment_mismatch(p)
    \/ write_segment_mismatch_unflushed(p)
    \/ write_segment_flush(p)
    \/ read_header(p)
    \/ read_vector(p)
    \/ read_return(p)

NextOverwrite ==
    \/ \E v \in OverwriteSegments : write_segment_create(2, v)
    \/ \E v \in OverwriteSegments : SegmentHeld /\ write_segment_create(1, v)
    \/ SegmentHeld /\ open(1, [op |-> "read_segment"])
    \/ Return(1)
    \/ \E p \in Procs : OverwriteStep(p)

SpecOverwrite == Init /\ [][NextOverwrite]_vars

\* ---------------------------------------------------------------------------
\* Vectors with metadata: the caller writes segments of vectors whose maps are
\* empty or hold an entry (Vector's fields are public), and reads them back
\* ---------------------------------------------------------------------------

\* Vector { data, metadata }
TaggedVectors ==
    { [data |-> v.data, metadata |-> m] :
         v \in InputVectors, m \in {{}, {<<"label", "cat">>}} }

MetadataSegments == UNION { [1..n -> TaggedVectors] : n \in 0..(MaxCount - 1) }

MetadataReadCalls ==
    { [op |-> "read_segment"] }
    \cup { [op |-> "read_vector_at", index |-> AsU32(i)] : i \in 0..1 }
    \cup { [op |-> "read_vectors_range", start |-> AsU32(a), count |-> AsU32(c)] :
              a \in 0..1, c \in 1..2 }

MetadataStep(p) ==
    \/ \E v \in MetadataSegments : write_segment_create(p, v)
    \/ write_segment_header(p)
    \/ write_segment_vector(p)
    \/ write_segment_mismatch(p)
    \/ write_segment_flush(p)
    \/ \E c \in MetadataReadCalls : open(p, c)
    \/ \E c \in MetadataReadCalls : open_fails(p, c)
    \/ read_header(p)
    \/ read_vector_at_bounds(p)
    \/ read_vector_at_seek(p)
    \/ read_vectors_range_bounds(p)
    \/ read_vectors_range_seek(p)
    \/ read_vector(p)
    \/ read_return(p)
    \/ Return(p)

NextMetadata == \E p \in SeqProcs : MetadataStep(p)

SpecMetadata == Init /\ [][NextMetadata]_vars

\* ---------------------------------------------------------------------------
\* The HTTP server: handler_search, handler_insert, handler_get_vector and
\* handler_stats as tasks over Arc<RwLock<AppState>>. A step is what a handler
\* does between two points where another task can run or, inside a critical
\* section, one access to the state.
\* ---------------------------------------------------------------------------

BAD_REQUEST(message) == [status |-> 400, error |-> message]

NOT_FOUND(message) == [status |-> 404, error |-> message]

ApiResponse_ok(data) == [status |-> 200, data |-> data]

\* the router hands a request to its handler
serve(t, r) ==
    /\ task[t].pc = "idle"
    /\ task' = [task EXCEPT ![t] =
                  [IdleTask EXCEPT
                      !.req = r,
                      !.floor = IF r.route = "get" THEN Len(history[r.id]) ELSE 0,
                      !.pc = IF r.route \in {"search", "insert"} THEN "validate"
                             ELSE "read_lock"]]
    /\ UNCHANGED <<state, lock, history>>
    /\ UNCHANGED segmentVars

\* the handler returns its response
Respond(t, r) == task' = [task EXCEPT ![t].pc = "done", ![t].response = r]

\* handler_search: `if query.data.is_empty()` returns 400
handler_search_validate(t) ==
    /\ task[t].pc = "validate"
    /\ task[t].req.route = "search"
    /\ IF task[t].req.query.data = <<>>
       THEN Respond(t, BAD_REQUEST("Vector data cannot be empty"))
       ELSE task' = [task EXCEPT ![t].pc = "write_lock"]
    /\ UNCHANGED <<state, lock, history>>
    /\ UNCHANGED segmentVars

\* handler_insert: `if req.id.is_empty()` and `if req.vector.data.is_empty()`
\* return 400
handler_insert_validate(t) ==
    /\ task[t].pc = "validate"
    /\ task[t].req.route = "insert"
    /\ IF task[t].req.id = ""
       THEN Respond(t, BAD_REQUEST("Vector ID cannot be empty"))
       ELSE IF task[t].req.vector.data = <<>>
       THEN Respond(t, BAD_REQUEST("Vector data cannot be empty"))
       ELSE task' = [task EXCEPT ![t].pc = "write_lock"]
    /\ UNCHANGED <<state, lock, history>>
    /\ UNCHANGED segmentVars

\* a faulty variant: the write guard is handed out whoever holds the lock
WriteGranted_unlocked == TRUE

\* RwLock::write is granted when no task holds the lock
WriteGranted == lock.writer = 0 /\ lock.readers = {}

\* RwLock::read is granted when no task holds the lock for writing (tokio
\* also keeps a reader waiting behind a writer that waits: fewer orders of
\* the tasks than here, and no other)
ReadGranted == lock.writer = 0

\* state.write().await
RwLock_write(t) ==
    /\ task[t].pc = "write_lock"
    /\ WriteGranted
    /\ lock' = [lock EXCEPT !.writer = t]
    /\ task' = [task EXCEPT ![t].pc = IF task[t].req.route = "insert" THEN "insert"
                                      ELSE "load"]
    /\ UNCHANGED <<state, history>>
    /\ UNCHANGED segmentVars

\* handler_insert: state.vectors.insert(req.id.clone(), req.vector)
vectors_insert(t) ==
    /\ task[t].pc = "insert"
    /\ \E id \in {task[t].req.id} :
          /\ state' = [state EXCEPT !.vectors =
                          [i \in DOMAIN state.vectors \cup {id} |->
                              IF i = id THEN task[t].req.vector ELSE state.vectors[i]]]
          /\ history' = [history EXCEPT ![id] = Append(history[id], task[t].req.vector)]
    /\ task' = [task EXCEPT ![t].pc = "load"]
    /\ UNCHANGED lock
    /\ UNCHANGED segmentVars

\* state.request_count += 1: the value is read
request_count_load(t) ==
    /\ task[t].pc = "load"
    /\ task' = [task EXCEPT ![t].tmp = state.request_count, ![t].pc = "store"]
    /\ UNCHANGED <<state, lock, history>>
    /\ UNCHANGED segmentVars

\* state.request_count += 1: the sum is stored; the block ends and the guard
\* is dropped; the handler returns Ok
request_count_store(t) ==
    /\ task[t].pc = "store"
    /\ state' = [state EXCEPT !.request_count = task[t].tmp + 1]
    /\ lock' = [lock EXCEPT !.writer = 0]
    /\ Respond(t, ApiResponse_ok(IF task[t].req.route = "insert"
                                 THEN <<"Inserted vector '{}'", task[t].req.id>>
                                 ELSE <<"doc_001", "doc_002", "doc_003">>))
    /\ UNCHANGED history
    /\ UNCHANGED segmentVars

\* state.read().await
RwLock_read(t) ==
    /\ task[t].pc = "read_lock"
    /\ ReadGranted
    /\ lock' = [lock EXCEPT !.readers = lock.readers \cup {t}]
    /\ task' = [task EXCEPT ![t].pc = task[t].req.route]
    /\ UNCHANGED <<state, history>>
    /\ UNCHANGED segmentVars

\* handler_get_vector: state.vectors.get(&id), the clone or 404; the guard is
\* dropped on return
handler_get_vector(t) ==
    /\ task[t].pc = "get"
    /\ \E id \in {task[t].req.id} :
          task' = [task EXCEPT
                      ![t].pc = "done",
                      ![t].seen = Len(history[id]),
                      ![t].response =
                          IF id \in DOMAIN state.vectors
                          THEN ApiResponse_ok(state.vectors[id])
                          ELSE NOT_FOUND(<<"Vector '{}' not found", id>>)]
    /\ lock' = [lock EXCEPT !.readers = lock.readers \ {t}]
    /\ UNCHANGED <<state, history>>
    /\ UNCHANGED segmentVars

\* handler_stats: vector_count and request_count as they are; the guard is
\* dropped on return
handler_stats(t) ==
    /\ task[t].pc = "stats"
    /\ Respond(t, ApiResponse_ok([vector_count  |-> Cardinality(DOMAIN state.vectors),
                                  request_count |-> state.request_count]))
    /\ lock' = [lock EXCEPT !.readers = lock.readers \ {t}]
    /\ UNCHANGED <<state, history>>
    /\ UNCHANGED segmentVars

NextServer ==
    \E t \in Tasks :
        \/ \E r \in Requests : serve(t, r)
        \/ handler_search_validate(t)
        \/ handler_insert_validate(t)
        \/ RwLock_write(t)
        \/ vectors_insert(t)
        \/ request_count_load(t)
        \/ request_count_store(t)
        \/ RwLock_read(t)
        \/ handler_get_vector(t)
        \/ handler_stats(t)

SpecServer == Init /\ [][NextServer]_vars

\* ---------------------------------------------------------------------------
\* Properties
\* ---------------------------------------------------------------------------

\* call p has returned from operation o
Returned(p, o) == pc[p] = "done" /\ call[p].op = o

\* C1, as stated. Round-trip: once write_segment has returned Ok for a
\* non-empty input V whose vectors have one length and nothing has touched the
\* file since, read_segment returns Ok with as many vectors as V, the i-th
\* equal to V[i] as main's verification compares them (Vec<f32>'s ==).
C1_RoundTripEqual ==
    \A p \in Procs :
        (Returned(p, "read_segment") /\ lastOk.valid /\ lastOk.vectors # <<>>)
        => /\ result[p].kind = "Ok"
           /\ Len(result[p].value) = Len(lastOk.vectors)
           /\ \A i \in 1..Len(lastOk.vectors) :
                 data_eq(lastOk.vectors[i].data, result[p].value[i].data)

\* C1, amended. Round-trip: once write_segment has returned Ok for a non-empty
\* input V whose vectors have one length and nothing has touched the file
\* since, read_segment returns Ok with as many vectors as V, the i-th of
\* V[i]'s length and holding in every component the bit pattern of V[i]'s; so
\* the i-th equals V[i] under == exactly when V[i] holds no NaN.
C1_RoundTrip ==
    \A p \in Procs :
        (Returned(p, "read_segment") /\ lastOk.valid /\ lastOk.vectors # <<>>)
        => /\ result[p].kind = "Ok"
           /\ Len(result[p].value) = Len(lastOk.vectors)
           /\ \A i \in 1..Len(lastOk.vectors) :
                 /\ Len(result[p].value[i].data) = Len(lastOk.vectors[i].data)
                 /\ \A j \in 1..Len(lastOk.vectors[i].data) :
                       result[p].value[i].data[j] = lastOk.vectors[i].data[j]
                 /\ data_eq(lastOk.vectors[i].data, result[p].value[i].data)
                    <=> \A j \in 1..Len(lastOk.vectors[i].data) :
                           ~is_nan(lastOk.vectors[i].data[j])

\* a segment of two vectors of two components, one of them a NaN and one not,
\* has been read back
C1_Witness ==
    \E p \in Procs :
        /\ Returned(p, "read_segment") /\ lastOk.valid
        /\ result[p].kind = "Ok"
        /\ Len(lastOk.vectors) = 2
        /\ Len(lastOk.vectors[1].data) = 2
        /\ is_nan(lastOk.vectors[1].data[1])
        /\ ~is_nan(lastOk.vectors[1].data[2])
        /\ lastOk.vectors[1] # lastOk.vectors[2]

\* C2. Random-access equivalence: on a file that a successful write_segment
\* left, read_vector_at with an index below the count returns Ok with exactly
\* the vector that read_segment returns at that index.
C2_RandomAccess ==
    \A p \in Procs :
        (/\ Returned(p, "read_vector_at") /\ lastOk.valid
         /\ \E n \in 0..(Len(lastOk.vectors) - 1) : call[p].index = AsU32(n))
        => /\ read_segment(file).kind = "Ok"
           /\ result[p].kind = "Ok"
           /\ \A n \in 0..(Len(lastOk.vectors) - 1) :
                 call[p].index = AsU32(n)
                 => result[p].value = read_segment(file).value[n + 1]

\* the second of two vectors that differ has been read at index 1
C2_Witness ==
    \E p \in Procs :
        /\ Returned(p, "read_vector_at") /\ lastOk.valid
        /\ call[p].index = AsU32(1)
        /\ Len(lastOk.vectors) = 2
        /\ lastOk.vectors[1] # lastOk.vectors[2]
        /\ Len(lastOk.vectors[2].data) = 2
        /\ result[p].kind = "Ok"

\* C3. Range equivalence: on a file that a successful write_segment left,
\* read_vectors_range(start, n) with start + n <= count returns Ok with
\* exactly the vectors start .. start + n - 1 of what read_segment returns
\* (none when n = 0).
C3_Range ==
    \A p \in Procs :
        \A a \in 0..Len(lastOk.vectors) : \A n \in 0..(Len(lastOk.vectors) - a) :
            (/\ Returned(p, "read_vectors_range") /\ lastOk.valid
             /\ call[p].start = AsU32(a) /\ call[p].count = AsU32(n))
            => /\ read_segment(file).kind = "Ok"
               /\ result[p].kind = "Ok"
               /\ result[p].value = SubSeq(read_segment(file).value, a + 1, a + n)

\* the second of two vectors that differ has been read as the range 1..2,
\* and an empty range has been read
C3_Witness ==
    \E p \in Procs :
        /\ Returned(p, "read_vectors_range") /\ lastOk.valid
        /\ call[p].start = AsU32(1) /\ call[p].count = AsU32(1)
        /\ Len(lastOk.vectors) = 2
        /\ lastOk.vectors[1] # lastOk.vectors[2]
        /\ Len(lastOk.vectors[2].data) = 2
        /\ result[p].kind = "Ok"
        /\ Len(result[p].value) = 1

\* the vectors of an input whose length is not the first vector's
Mismatches(vectors) ==
    { k \in 1..Len(vectors) : Len(vectors[k].data) # Len(vectors[1].data) }

\* C4. Dimension enforcement: for an input with a vector whose length is not
\* the first vector's, write_segment never returns Ok; it returns the
\* dimension error, which reports the (0-based) smallest index of such a
\* vector, that vector's length as what it got and the first vector's length
\* as what it expected.
C4_DimensionEnforcement ==
    \A p \in Procs :
        (Returned(p, "write_segment") /\ Mismatches(call[p].vectors) # {})
        => \E k \in Mismatches(call[p].vectors) :
              /\ \A m \in Mismatches(call[p].vectors) : k <= m
              /\ result[p].kind = "Err"
              /\ result[p].error.kind = "InvalidData"
              /\ result[p].error.msg = "Vector {} has dimension {}, expected {}"
              /\ result[p].error.args =
                    <<k - 1, Len(call[p].vectors[k].data),
                      AsU32(Len(call[p].vectors[1].data))>>

\* an input of lengths 2, 2, 1 has been refused at index 2, and one of
\* lengths 1, 2, 0 at index 1
C4_Witness ==
    \E p \in Procs :
        /\ Returned(p, "write_segment")
        /\ Len(call[p].vectors) = 3
        /\ Len(call[p].vectors[1].data) = 1
        /\ Len(call[p].vectors[2].data) = 2
        /\ Len(call[p].vectors[3].data) = 0
        /\ result[p].kind = "Err"
        /\ result[p].error.args = <<1, 2, AsU32(1)>>

\* the file starts with all 16 bytes of a header
HasHeaderBytes == exists /\ Len(file) >= 16

\* call p has returned from one of the four readers
ReturnedFromRead(p) ==
    /\ pc[p] = "done"
    /\ call[p].op \in {"read_segment", "read_segment_header", "read_vector_at",
                       "read_vectors_range"}

\* C5. Magic and version rejection: a reader that finds 16 header bytes whose
\* first 4 are not "VECT" returns the invalid-magic error whatever the version
\* bytes are; one that finds "VECT" and a version other than 1 returns the
\* unsupported-version error. Neither returns a header or vectors.
C5_MagicVersionRejection ==
    \A p \in Procs :
        (ReturnedFromRead(p) /\ HasHeaderBytes)
        => /\ SubSeq(file, 1, 4) # <<86, 69, 67, 84>>
              => /\ result[p].kind = "Err"
                 /\ result[p].error.kind = "InvalidData"
                 /\ result[p].error.msg = "Invalid magic bytes: expected {:?}, got {:?}"
           /\ (SubSeq(file, 1, 4) = <<86, 69, 67, 84>> /\ SubSeq(file, 5, 8) # <<1, 0, 0, 0>>)
              => /\ result[p].kind = "Err"
                 /\ result[p].error.kind = "InvalidData"
                 /\ result[p].error.msg = "Unsupported version: expected {}, got {}"

\* a file with a wrong magic and a wrong version has been refused for its
\* magic
C5_Witness ==
    \E p \in Procs :
        /\ ReturnedFromRead(p) /\ HasHeaderBytes
        /\ SubSeq(file, 1, 4) # <<86, 69, 67, 84>>
        /\ SubSeq(file, 5, 8) # <<1, 0, 0, 0>>
        /\ result[p].kind = "Err"
        /\ result[p].error.msg = "Invalid magic bytes: expected {:?}, got {:?}"

\* the file starts with a header of the right magic and version
HasValidHeader ==
    /\ HasHeaderBytes
    /\ SubSeq(file, 1, 4) = <<86, 69, 67, 84>>
    /\ SubSeq(file, 5, 8) = <<1, 0, 0, 0>>

\* the count the file's header declares: bytes 8..11, little-endian
FileCount == <<file[12], file[11], file[10], file[9]>>

IsIndexOutOfBounds(r) ==
    /\ r.kind = "Err"
    /\ r.error.kind = "InvalidInput"
    /\ r.error.msg = "Index {} out of bounds (count: {})"

\* C6. read_vector_at bounds: on a file with a valid header, read_vector_at
\* returns the index-out-of-bounds error for every index at or above the
\* header's count (so for every index when the count is 0), and for no index
\* below it.
C6_IndexBounds ==
    \A p \in Procs :
        (Returned(p, "read_vector_at") /\ HasValidHeader)
        => (IsIndexOutOfBounds(result[p]) <=> ~Less(call[p].index, FileCount))

\* the index one past the end of a segment of 2 has been refused
C6_Witness ==
    \E p \in Procs :
        /\ Returned(p, "read_vector_at") /\ HasValidHeader
        /\ FileCount = AsU32(2)
        /\ call[p].index = AsU32(2)
        /\ IsIndexOutOfBounds(result[p])

IsRangeOutOfBounds(r) ==
    /\ r.kind = "Err"
    /\ r.error.kind = "InvalidInput"
    /\ r.error.msg = "Range {}..{} out of bounds (count: {})"

\* start + n > count, the sum being the mathematical one (5 digits)
RangeExceeds(start, n, count) == Less(<<0>> \o count, Sum(start, n))

\* C7. read_vectors_range bounds, as claimed: on a file with a valid header,
\* read_vectors_range(start, n) returns the range-out-of-bounds error exactly
\* when the mathematical sum start + n exceeds the header's count; a pair
\* whose 32-bit sum wraps around is refused, and is neither accepted nor a
\* crash.
C7_RangeBounds ==
    \A p \in Procs :
        (Returned(p, "read_vectors_range") /\ HasValidHeader)
        => (IsRangeOutOfBounds(result[p])
            <=> RangeExceeds(call[p].start, call[p].count, FileCount))

\* the bytes of the header of an empty segment
EmptySegmentBytes == <<86, 69, 67, 84, 1, 0, 0, 0, 0, 0, 0, 0, 0, 0, 0, 0>>

\* C8. Empty segment: write_segment of no vectors returns Ok unless the device
\* fails, and then the file is exactly the 16 header bytes with count 0 and
\* dimension 0; read_segment on that file returns Ok with no vectors.
C8_EmptySegment ==
    \A p \in Procs :
        /\ (Returned(p, "write_segment") /\ call[p].vectors = <<>>)
           => /\ result[p].kind = "Err" => result[p].error = StorageFull
              /\ result[p].kind = "Ok" => file = EmptySegmentBytes
        /\ (Returned(p, "read_segment") /\ lastOk.valid /\ lastOk.vectors = <<>>)
           => /\ file = EmptySegmentBytes
              /\ result[p] = Ok(<<>>)

\* an empty segment has been written and read back
C8_Witness ==
    \E p \in Procs :
        /\ Returned(p, "read_segment") /\ lastOk.valid /\ lastOk.vectors = <<>>
        /\ result[p] = Ok(<<>>)
        /\ Len(file) = 16

\* the length of the first vector of an input, 0 for the empty input
FirstLen(vectors) == IF vectors = <<>> THEN 0 ELSE Len(vectors[1].data)

\* C9. File size: when write_segment returns Ok the file is exactly
\* 16 + count * dimension * 4 bytes long, count being the number of vectors
\* and dimension the first vector's length, and BufWriter's buffer is empty;
\* also when the file at the path was longer before.
C9_FileSize ==
    \A p \in Procs :
        (Returned(p, "write_segment") /\ result[p].kind = "Ok")
        => /\ Len(file) = 16 + Len(call[p].vectors) * FirstLen(call[p].vectors) * 4
           /\ loc[p].buf = <<>>

\* a segment with data has been written over a longer file
C9_Witness ==
    \E p \in Procs :
        /\ Returned(p, "write_segment") /\ result[p].kind = "Ok"
        /\ Len(call[p].vectors) = 2
        /\ FirstLen(call[p].vectors) = 1
        /\ loc[p].old > Len(file)
        /\ Len(file) = 24

\* byte k (from 1) of the layout of an input: the header, then the vectors in
\* input order, each component as 4 little-endian bytes, nothing in between
LayoutByte(vectors, k) ==
    IF k <= 16
    THEN <<86, 69, 67, 84, 1, 0, 0, 0, Len(vectors), 0, 0, 0,
           FirstLen(vectors), 0, 0, 0>>[k]
    ELSE LET q == k - 17
             c == q \div 4
             i == c \div FirstLen(vectors)
             j == c % FirstLen(vectors)
         IN  vectors[i + 1].data[j + 1][4 - (q % 4)]

\* C10. Write ordering and layout: all through a write_segment call, what it
\* has emitted (the file, then what BufWriter still holds) is a prefix of the
\* layout: the 16 header bytes first, then the vectors in input order without
\* framing; and when the call returns Ok, component j of vector i is the 4
\* bytes at offset 16 + (i * dimension + j) * 4.
C10_Layout ==
    \A p \in Procs :
        call[p].op = "write_segment"
        => /\ \A k \in 1..Len(file \o loc[p].buf) :
                 (file \o loc[p].buf)[k] = LayoutByte(call[p].vectors, k)
           /\ (pc[p] = "done" /\ result[p].kind = "Ok")
              => \A i \in 0..(Len(call[p].vectors) - 1) :
                    \A j \in 0..(FirstLen(call[p].vectors) - 1) :
                       LET o == 16 + (i * FirstLen(call[p].vectors) + j) * 4
                           c == call[p].vectors[i + 1].data[j + 1]
                       IN  SubSeq(file, o + 1, o + 4) = <<c[4], c[3], c[2], c[1]>>

\* three vectors of two components, not all alike, have been written, the
\* buffer having been flushed on the way
C10_Witness ==
    \E p \in Procs :
        /\ Returned(p, "write_segment") /\ result[p].kind = "Ok"
        /\ Len(call[p].vectors) = 3
        /\ FirstLen(call[p].vectors) = 2
        /\ call[p].vectors[1].data[1] # call[p].vectors[1].data[2]
        /\ call[p].vectors[1] # call[p].vectors[2]
        /\ call[p].vectors[2] # call[p].vectors[3]
        /\ Len(file) = 40

\* the file's header does not decode: it is short, or its magic or its version
\* is wrong
HeaderFails(f) ==
    \/ Len(f) < 16
    \/ SubSeq(f, 1, 4) # <<86, 69, 67, 84>>
    \/ SubSeq(f, 5, 8) # <<1, 0, 0, 0>>

\* the error of decoding such a header, field by field from the front
HeaderErrorOf(f) ==
    IF Len(f) < 4 THEN UnexpectedEof
    ELSE IF SubSeq(f, 1, 4) # <<86, 69, 67, 84>>
    THEN IoError("InvalidData", "Invalid magic bytes: expected {:?}, got {:?}",
                 <<(<<86, 69, 67, 84>>), SubSeq(f, 1, 4)>>)
    ELSE IF Len(f) < 8 THEN UnexpectedEof
    ELSE IF SubSeq(f, 5, 8) # <<1, 0, 0, 0>>
    THEN IoError("InvalidData", "Unsupported version: expected {}, got {}",
                 <<(<<0, 0, 0, 1>>), (<<f[8], f[7], f[6], f[5]>>)>>)
    ELSE UnexpectedEof

\* C11. Header check on every read: on a file whose header does not decode,
\* each of the four readers returns the error of decoding that header and
\* nothing else, whatever its index or range argument is (out of bounds, or a
\* range whose sum overflows); and no reader returns Ok on a file whose magic
\* or version is wrong.
C11_HeaderFirst ==
    \A p \in Procs :
        (ReturnedFromRead(p) /\ exists)
        => /\ HeaderFails(file) => result[p] = Err(HeaderErrorOf(file))
           /\ result[p].kind = "Ok" => ~HeaderFails(file)

\* read_vectors_range, with a range whose sum overflows, has returned the
\* version error of a file that has all 16 header bytes
C11_Witness ==
    \E p \in Procs :
        /\ Returned(p, "read_vectors_range") /\ exists
        /\ call[p].start = U32Max /\ call[p].count = U32Max
        /\ Len(file) >= 16
        /\ SubSeq(file, 1, 4) = <<86, 69, 67, 84>>
        /\ SubSeq(file, 5, 8) = <<2, 0, 0, 0>>
        /\ result[p].kind = "Err"
        /\ result[p].error.msg = "Unsupported version: expected {}, got {}"

\* C12, as claimed. A failed write leaves a file that every later reader
\* treats as corrupt: after write_segment has returned an error (a dimension
\* mismatch, or the device failing) and until the file is written again,
\* read_segment, read_vector_at and read_vectors_range (of a range that is not
\* empty and whose u32 sum does not overflow) return an error, and none
\* returns vectors.
C12_FailedWriteCorrupt ==
    \A p \in Procs :
        (/\ lastOk.failed /\ pc[p] = "done"
         /\ \/ call[p].op \in {"read_segment", "read_vector_at"}
            \/ /\ call[p].op = "read_vectors_range"
               /\ call[p].count # AsU32(0)
               /\ ~AddOverflows(call[p].start, call[p].count))
        => result[p].kind = "Err"

\* the dimension the file's header declares: bytes 12..15, little-endian
FileDimension == <<file[16], file[15], file[14], file[13]>>

\* the data region of the file holds fewer whole floats than count * dimension
\* (the product in full, 8 digits)
Truncated ==
    Less(NatDigits((Len(file) - 16) \div 4, 8), Product(FileCount, FileDimension))

\* C13, as claimed. read_segment's truncation detection: on a file with a
\* valid header whose data region holds fewer than count * dimension floats,
\* read_segment returns the UnexpectedEof error, and so no vectors.
C13_Truncation ==
    \A p \in Procs :
        (Returned(p, "read_segment") /\ HasValidHeader /\ Truncated)
        => result[p] = Err(UnexpectedEof)

\* C14, as claimed. No process termination on malformed input: whatever the
\* file holds and whatever index, start and count are passed, a reader that
\* has finished has returned a value or an error; it has neither panicked nor
\* aborted the process.
C14_NoTermination ==
    \A p \in Procs :
        ReturnedFromRead(p) => result[p].kind \in {"Ok", "Err"}

\* C15. No handle escapes a call: a call holds its own handle from its
\* File::create or File::open on, and holds none once it has returned,
\* whichever way it ended; so between calls no handle is held at all.
C15_NoHandleEscapes ==
    /\ \A p \in Procs :
          /\ pc[p] \in {"idle", "done"} => ~loc[p].open
          /\ (pc[p] \notin {"idle", "done"}) => loc[p].open
    /\ (\A p \in Procs : pc[p] \in {"idle", "done"})
       => Cardinality({ p \in Procs : loc[p].open }) = 0

\* write_segment has returned the dimension error, having written part of the
\* segment, and holds no handle
C15_Witness ==
    \E p \in Procs :
        /\ Returned(p, "write_segment")
        /\ result[p].kind = "Err"
        /\ result[p].error.kind = "InvalidData"
        /\ Len(file) > 16
        /\ ~loc[p].open

\* C16. Latest write wins: once write_segment has returned Ok for an input V,
\* and until the file is written again, read_segment_header returns version 1,
\* count = |V| and dimension = the length of V[1] (0 for the empty V), and
\* read_segment returns |V| vectors holding V's components bit for bit, whatever
\* was at the path before that write and however often it is read.
C16_LatestWriteWins ==
    \A p \in Procs :
        lastOk.valid
        => /\ Returned(p, "read_segment_header")
              => result[p] = Ok(SegmentHeader(<<0, 0, 0, 1>>,
                                              AsU32(Len(lastOk.vectors)),
                                              AsU32(FirstLen(lastOk.vectors))))
           /\ Returned(p, "read_segment")
              => /\ result[p].kind = "Ok"
                 /\ Len(result[p].value) = Len(lastOk.vectors)
                 /\ \A i \in 1..Len(lastOk.vectors) :
                       result[p].value[i].data = lastOk.vectors[i].data

\* the header of a segment of one vector of two components has been read, the
\* segment having been written over a longer file
C16_Witness ==
    \E p \in Procs :
        /\ lastOk.valid /\ lastOk.over
        /\ Returned(p, "read_segment_header")
        /\ Len(lastOk.vectors) = 1
        /\ Len(lastOk.vectors[1].data) = 2
        /\ result[p].kind = "Ok"
        /\ result[p].value.count = AsU32(1)
        /\ result[p].value.dimension = AsU32(2)

\* a write_segment call of q is under way
Writing(q) == pc[q] \in {"w_header", "w_vectors"}

\* a read call of q is under way
Reading(q) == pc[q] \in {"r_header", "r_check", "r_vectors"}

\* v is a vector of one of the segments that are ever written
WrittenVector(v) ==
    \E s \in RaceSegments : \E i \in 1..Len(s) : s[i].data = v.data

\* C17. Reader/writer race: nothing keeps a reader and a writer apart. While
\* a write_segment call is under way on the path, every read the other caller
\* may start is granted its File::open, and while a read is under way the
\* other caller's write_segment is granted its File::create (which truncates
\* the file under the reader).
C17_NoLocking ==
    \A q \in Procs : \A p \in Procs \ {q} :
        /\ (Writing(q) /\ pc[p] = "idle")
           => \A c \in RaceReadCalls : ENABLED open(p, c)
        /\ (Reading(q) /\ pc[p] = "idle")
           => \A v \in RaceSegments : ENABLED write_segment_create(p, v)

\* the hazard: while the other caller was writing B, read_vector_at(0) has
\* returned Ok with [NaN, 1.0], which is in no segment ever written: it
\* decoded the header of A (dimension 2) and then read the data of B, whose
\* header is in the file by now
C17_Witness ==
    \E p \in Procs : \E q \in Procs \ {p} :
        /\ Returned(p, "read_vector_at")
        /\ call[q].op = "write_segment"
        /\ result[p].kind = "Ok"
        /\ result[p].value.data = << <<127, 192, 0, 0>>, <<63, 128, 0, 0>> >>
        /\ ~WrittenVector(result[p].value)
        /\ loc[p].header.dimension = AsU32(2)
        /\ HasValidHeader
        /\ FileDimension = AsU32(1)

\* the complete output of write_segment for an input: the bytes of its layout
Encoded(vectors) ==
    [k \in 1..(16 + Len(vectors) * FirstLen(vectors) * 4) |-> LayoutByte(vectors, k)]

\* C18. Concurrent writers: nothing keeps two writers apart. While a
\* write_segment call is under way on the path, the other caller's
\* write_segment, whatever its input, is granted its File::create, which
\* truncates the file under the first.
C18_NoWriterExclusion ==
    \A q \in Procs : \A p \in Procs \ {q} :
        (Writing(q) /\ pc[p] = "idle")
        => \A v \in RaceSegments : ENABLED write_segment_create(p, v)

\* the hazard: both callers' write_segment have returned Ok, and the file is
\* the complete output of neither; read_segment of it returns neither input
C18_Witness ==
    /\ \A p \in Procs : Returned(p, "write_segment") /\ result[p].kind = "Ok"
    /\ call[1].vectors # call[2].vectors
    /\ \A p \in Procs :
          /\ file # Encoded(call[p].vectors)
          /\ read_segment(file) # Ok(call[p].vectors)

\* C19, as stated. Short header: on a file of fewer than 16 bytes, whatever
\* they are, decoding the header fails with UnexpectedEof.
C19_ShortHeaderEof ==
    \A p \in Procs :
        (ReturnedFromRead(p) /\ exists /\ Len(file) < 16)
        => result[p] = Err(UnexpectedEof)

\* the file has 4 bytes or more and the first 4 are not the magic
ShortWrongMagic == Len(file) >= 4 /\ SubSeq(file, 1, 4) # <<86, 69, 67, 84>>

\* the file has 8 bytes or more, the magic, and a version other than 1
ShortWrongVersion ==
    /\ Len(file) >= 8
    /\ SubSeq(file, 1, 4) = <<86, 69, 67, 84>>
    /\ SubSeq(file, 5, 8) # <<1, 0, 0, 0>>

\* C19, amended. Short header: on a file of fewer than 16 bytes decoding the
\* header always fails and never returns a header. The error is the invalid
\* magic one if 4 bytes or more are there and the first 4 are not the magic,
\* the unsupported version one if 8 or more are there with the magic and
\* another version than 1, and UnexpectedEof in every other case.
C19_ShortHeader ==
    \A p \in Procs :
        (ReturnedFromRead(p) /\ exists /\ Len(file) < 16)
        => /\ result[p].kind = "Err"
           /\ ShortWrongMagic
              => /\ result[p].error.kind = "InvalidData"
                 /\ result[p].error.msg = "Invalid magic bytes: expected {:?}, got {:?}"
           /\ ShortWrongVersion
              => /\ result[p].error.kind = "InvalidData"
                 /\ result[p].error.msg = "Unsupported version: expected {}, got {}"
           /\ (~ShortWrongMagic /\ ~ShortWrongVersion)
              => result[p] = Err(UnexpectedEof)

\* a file of 15 bytes with the magic and version 1 has been refused with
\* UnexpectedEof
C19_Witness ==
    \E p \in Procs :
        /\ ReturnedFromRead(p) /\ exists
        /\ Len(file) = 15
        /\ SubSeq(file, 1, 8) = <<86, 69, 67, 84, 1, 0, 0, 0>>
        /\ result[p] = Err(UnexpectedEof)

\* C20. Header round-trip: SegmentHeader::write puts out exactly 16 bytes, the
\* magic, then version, count and dimension each as 4 bytes least significant
\* first, with nothing between or after; and SegmentHeader::read of these
\* bytes returns Ok with the same version, count and dimension whenever the
\* version is 1, for counts and dimensions over the whole u32 range.
C20_HeaderRoundTrip ==
    \A p \in Procs :
        (call[p].op = "header" /\ pc[p] \in {"h_read", "done"})
        => /\ Len(file) = 16
           /\ SubSeq(file, 1, 4) = <<86, 69, 67, 84>>
           /\ \A k \in 1..4 :
                 /\ file[4 + k] = call[p].header.version[5 - k]
                 /\ file[8 + k] = call[p].header.count[5 - k]
                 /\ file[12 + k] = call[p].header.dimension[5 - k]
           /\ (pc[p] = "done" /\ call[p].header.version = <<0, 0, 0, 1>>)
              => /\ result[p].kind = "Ok"
                 /\ result[p].value.version = call[p].header.version
                 /\ result[p].value.count = call[p].header.count
                 /\ result[p].value.dimension = call[p].header.dimension

\* the header of version 1, count 0x01020304 and dimension 2^32 - 1 has been
\* written and read back
C20_Witness ==
    \E p \in Procs :
        /\ call[p].op = "header" /\ pc[p] = "done"
        /\ call[p].header = SegmentHeader(<<0, 0, 0, 1>>, <<1, 2, 3, 4>>, U32Max)
        /\ file = <<86, 69, 67, 84, 1, 0, 0, 0, 4, 3, 2, 1, 255, 255, 255, 255>>
        /\ result[p] = Ok(call[p].header)

\* 16 + n * dim * 4 as a natural number, in 11 digits (it is below 2^67): the
\* product of the two u32 in full, doubled twice, plus 16
MathOffset(n, dim) ==
    The({ The({ Sum(q, <<0, 0, 0, 0, 0, 0, 0, 0, 0, 16>>) : q \in {Sum(d, d)} }) :
             d \in {Sum(Product(n, dim), Product(n, dim))} })

\* C21, as claimed. Offset arithmetic does not overflow: for every u32 count,
\* dimension and index, vector_offset(index) is the natural number
\* 16 + index * dimension * 4 and file_size() the natural number
\* 16 + count * dimension * 4, nothing having wrapped around or panicked.
C21_OffsetsExact ==
    \A p \in Procs :
        Returned(p, "offsets")
        => /\ result[p].kind = "Ok"
           /\ <<0, 0, 0>> \o result[p].value.vector_offset
                 = MathOffset(call[p].index, call[p].header.dimension)
           /\ <<0, 0, 0>> \o result[p].value.file_size
                 = MathOffset(call[p].header.count, call[p].header.dimension)

\* the natural number m of 11 digits is below 2^64
FitsU64(m) == SubSeq(m, 1, 3) = <<0, 0, 0>>

\* C21, amended. Offsets are exact wherever a u64 can hold them: for every u32
\* count, dimension and index, a returned vector_offset(index) is
\* 16 + index * dimension * 4 and a returned file_size() is
\* 16 + count * dimension * 4 whenever that number is below 2^64; the call
\* panics only when one of the two numbers is 2^64 or more, and a value
\* returned for such a number is the number modulo 2^64.
C21_Offsets ==
    \A p \in Procs :
        Returned(p, "offsets")
        => \E mv \in {MathOffset(call[p].index, call[p].header.dimension)} :
           \E mf \in {MathOffset(call[p].header.count, call[p].header.dimension)} :
              /\ result[p].kind \in {"Ok", "Panic"}
              /\ result[p].kind = "Ok"
                   => /\ result[p].value.vector_offset = SubSeq(mv, 4, 11)
                      /\ result[p].value.file_size = SubSeq(mf, 4, 11)
              /\ result[p].kind = "Panic" => ~FitsU64(mv) \/ ~FitsU64(mf)

\* an offset beyond the u32 range, formed exactly in u64
C21_Witness ==
    \E p \in Procs :
        /\ Returned(p, "offsets")
        /\ result[p].kind = "Ok"
        /\ FitsU64(MathOffset(call[p].index, call[p].header.dimension))
        /\ FitsU64(MathOffset(call[p].header.count, call[p].header.dimension))
        /\ SubSeq(result[p].value.vector_offset, 1, 4) # <<0, 0, 0, 0>>
        /\ SubSeq(result[p].value.file_size, 1, 4) # <<0, 0, 0, 0>>
        /\ call[p].index # call[p].header.count

\* the length of the segment the file's header declares, 16 + count *
\* dimension * 4, where the file is at least that long
SegmentLength == 16 + 4 * ToNat(Product(FileCount, FileDimension))

\* C22. Trailing bytes are ignored: on a file with a valid header that holds
\* the 16 + count * dimension * 4 bytes of its segment and any bytes after
\* them, each of the four readers ends as it may end on the segment alone, the
\* bytes after it cut off: the same value or the same error (and where the
\* build or the allocator decides how a call ends, the same ways to end).
C22_TrailingBytes ==
    \A p \in Procs :
        (ReturnedFromRead(p) /\ HasValidHeader /\ ~Truncated)
        => /\ result[p] \in read_outcomes(SubSeq(file, 1, SegmentLength), call[p])
           /\ read_outcomes(file, call[p])
                 = read_outcomes(SubSeq(file, 1, SegmentLength), call[p])

\* read_segment has returned the vectors of a segment that is followed by
\* other bytes in the file
C22_Witness ==
    \E p \in Procs :
        /\ Returned(p, "read_segment") /\ HasValidHeader /\ ~Truncated
        /\ Len(file) > SegmentLength
        /\ result[p].kind = "Ok"
        /\ SegmentLength > 16

\* call p is a read of vector data within the bounds of the file's header: a
\* read_vector_at of an index below the count, or a read_vectors_range of
\* one vector or more that ends at the count or before it
ReadInBounds(p) ==
    \/ /\ call[p].op = "read_vector_at"
       /\ Less(call[p].index, FileCount)
    \/ /\ call[p].op = "read_vectors_range"
       /\ call[p].count # AsU32(0)
       /\ ~AddOverflows(call[p].start, call[p].count)
       /\ LessEq(WrappingAdd(call[p].start, call[p].count), FileCount)

\* C23, as claimed. Geometry mismatch is detected on every read: on a file
\* with a valid header that is shorter than 16 + count * dimension * 4, a
\* read_vector_at of an index below the count and a read_vectors_range within
\* the count return the UnexpectedEof error, also where the bytes they ask for
\* are in the file. (The headers are those of a count and a dimension below
\* 2^31.)
C23_GeometryChecked ==
    \A p \in Procs :
        (/\ pc[p] = "done" /\ HasValidHeader /\ Truncated
         /\ ~MayExhaustMemory(FileCount) /\ ~MayExhaustMemory(FileDimension)
         /\ ReadInBounds(p))
        => result[p] = Err(UnexpectedEof)

\* write_segment has returned the dimension error to caller p
MismatchReturned(p) ==
    /\ Returned(p, "write_segment")
    /\ result[p].kind = "Err"
    /\ result[p].error.msg = "Vector {} has dimension {}, expected {}"

C24_WitnessUnflushed ==
    \E p \in Procs :
        /\ MismatchReturned(p)
        /\ result[p].error.args[1] = 1
        /\ file = <<>>

\* C25, as claimed. A failed write does not preserve the previous segment:
\* the path holding the segment S that the second caller wrote, after a
\* write_segment of the first caller that returned the dimension error a
\* read_segment does not return S.
C25_PreviousGone ==
    (/\ Returned(2, "write_segment") /\ result[2].kind = "Ok"
     /\ lastOk.failed
     /\ Returned(1, "read_segment"))
    => result[1] # Ok(call[2].vectors)

\* the whole floats the file holds from where call p's reader stands
AvailableFloats(p) ==
    IF LessEq(loc[p].off, Len64(file))
    THEN (Len(file) - ToNat(loc[p].off) + Len(loc[p].buf)) \div 4
    ELSE 0

\* C26, as claimed. Readers do not size buffers from an unverified header:
\* when read_segment, read_vector_at or read_vectors_range is about to read a
\* vector, the capacity it reserves for the components is no more than the
\* floats the file holds from there on, and the capacity it has reserved for
\* the vectors is no more vectors than those floats can fill.
C26_CapacityWithinFile ==
    \A p \in Procs :
        (/\ pc[p] = "r_vectors" /\ exists
         /\ call[p].op \in {"read_segment", "read_vector_at", "read_vectors_range"}
         /\ loc[p].i = 0
         /\ Less(AsU32(0), Wanted(p)))
        => /\ LessEq(data_capacity(p), AsU32(AvailableFloats(p)))
           /\ call[p].op # "read_vector_at"
                => LessEq(Product(vectors_capacity(p), data_capacity(p)),
                          NatDigits(AvailableFloats(p), 8))

\* the offsets of the n * dimension * 4 bytes from 16 + first * dimension * 4
\* on (no offset where that is no byte), the dimension being the file's
RequestedBytes(first, n) ==
    IF n = AsU32(0) \/ FileDimension = AsU32(0) THEN {}
    ELSE (16 + ToNat(first) * ToNat(FileDimension) * 4)
            ..(16 + (ToNat(first) + ToNat(n)) * ToNat(FileDimension) * 4 - 1)

\* C27. Random access touches only the requested bytes: a read_vector_at that
\* returns Ok has read from the file the 16 bytes of the header and the
\* dimension * 4 bytes from 16 + index * dimension * 4 on, and a
\* read_vectors_range that returns Ok the 16 bytes of the header and the
\* count * dimension * 4 bytes from 16 + start * dimension * 4 on; each has made
\* one seek, and has read no other byte of the file.
C27_OnlyRequestedBytes ==
    \A p \in Procs :
        (pc[p] = "done" /\ result[p].kind = "Ok" /\ exists)
        => /\ call[p].op = "read_vector_at"
              => /\ loc[p].touched = 0..15 \cup RequestedBytes(call[p].index, AsU32(1))
                 /\ loc[p].seeks = 1
           /\ call[p].op = "read_vectors_range"
              => /\ loc[p].touched = 0..15 \cup RequestedBytes(call[p].start, call[p].count)
                 /\ loc[p].seeks = 1

\* read_vectors_range has returned the second and third vector of a file of
\* dimension 1 that holds more than three, and has read neither a byte of the
\* first nor one after the third
C27_Witness ==
    \E p \in Procs :
        /\ Returned(p, "read_vectors_range") /\ result[p].kind = "Ok"
        /\ call[p].start = AsU32(1) /\ call[p].count = AsU32(2)
        /\ FileDimension = AsU32(1)
        /\ Len(file) > 28
        /\ loc[p].touched = 0..15 \cup 20..27

\* the first 16 bytes of the file, or all of a shorter file
HeaderBytes == SubSeq(file, 1, Min(16, Len(file)))

\* C28, as claimed. read_segment_header depends only on the first 16 bytes:
\* it returns what it returns on the file cut after its 16th byte, so the
\* header where those bytes are a valid header, whatever follows them or is
\* missing after them; and it has read no byte at offset 16 or beyond.
C28_HeaderOnly ==
    \A p \in Procs :
        (Returned(p, "read_segment_header") /\ exists)
        => /\ result[p] \in read_outcomes(HeaderBytes, call[p])
           /\ HasValidHeader
                 => result[p] = Ok(SegmentHeader(AsU32(VERSION), FileCount, FileDimension))
           /\ \A k \in loc[p].touched : k < 16

\* the vectors of an input with their maps emptied
WithoutMetadata(vectors) ==
    [i \in 1..Len(vectors) |-> [data |-> vectors[i].data, metadata |-> {}]]

\* the vectors a reader's result holds
VectorsOf(p) ==
    IF call[p].op = "read_vector_at" THEN {result[p].value}
    ELSE { result[p].value[i] : i \in 1..Len(result[p].value) }

\* C29. Metadata is not persisted: the file that a write_segment returning Ok
\* leaves is the layout of the input with its maps emptied, so that inputs
\* which differ in metadata only leave the same bytes; every vector that
\* read_segment, read_vector_at or read_vectors_range returns has an empty
\* metadata map, and read_segment returns the input that was written with its
\* maps emptied.
C29_MetadataDropped ==
    \A p \in Procs :
        /\ (Returned(p, "write_segment") /\ result[p].kind = "Ok")
              => file = Encoded(WithoutMetadata(call[p].vectors))
        /\ (ReturnedFromRead(p) /\ call[p].op # "read_segment_header"
            /\ result[p].kind = "Ok")
              => /\ \A v \in VectorsOf(p) : v.metadata = {}
                 /\ (call[p].op = "read_segment" /\ lastOk.valid)
                       => result[p].value = WithoutMetadata(lastOk.vectors)

\* a segment of two vectors, the second with an entry in its map, has been
\* written and read back: the entry is not in what read_segment returned
C29_Witness ==
    \E p \in Procs :
        /\ Returned(p, "read_segment") /\ result[p].kind = "Ok"
        /\ lastOk.valid
        /\ Len(lastOk.vectors) = 2
        /\ lastOk.vectors[1].metadata = {}
        /\ lastOk.vectors[2].metadata # {}
        /\ lastOk.vectors[1].data # <<>>
        /\ result[p].value # lastOk.vectors

\* the search and insert requests that have passed validation: those of a
\* query or vector with data and, for an insert, of an id that is not empty,
\* whose handler is past its checks
PassedValidation ==
    { t \in Tasks :
         /\ task[t].pc \notin {"idle", "validate"}
         /\ \/ task[t].req.route = "search" /\ task[t].req.query.data # <<>>
            \/ /\ task[t].req.route = "insert"
               /\ task[t].req.id # "" /\ task[t].req.vector.data # <<>> }

\* the requests that have been answered
Answered == { t \in Tasks : task[t].pc = "done" }

\* C30. The server's shared state under concurrent requests. All access goes
\* through the one RwLock: a task is at an access of the state only while it
\* holds the lock, a writer holds it alone. Under every interleaving of the
\* handlers request_count is the number of search and insert requests that
\* have passed validation and been answered (all of those that passed
\* validation once every request is answered), so that no increment is lost
\* and rejected requests, get and stats requests count for nothing. An insert
\* stores and counts in one critical section: no reader sees more vectors than
\* requests counted. A get answers with the vector that the latest insert
\* stored under its id, and never with less than what was stored when it
\* arrived: 404 only if nothing had been stored under the id.
C30_SharedState ==
    /\ \A t \in Tasks :
          /\ task[t].pc \in {"insert", "load", "store"}
                => lock.writer = t /\ lock.readers = {}
          /\ task[t].pc \in {"get", "stats"} => t \in lock.readers /\ lock.writer = 0
    /\ state.request_count = Cardinality(PassedValidation \cap Answered)
    /\ Answered = Tasks => state.request_count = Cardinality(PassedValidation)
    /\ \A t \in Answered :
          /\ (task[t].req.route = "stats" /\ task[t].response.status = 200)
                => /\ task[t].response.data.vector_count
                         <= task[t].response.data.request_count
          /\ task[t].req.route = "get"
                => /\ task[t].seen >= task[t].floor
                   /\ task[t].response =
                         IF task[t].seen = 0
                         THEN NOT_FOUND(<<"Vector '{}' not found", task[t].req.id>>)
                         ELSE ApiResponse_ok(history[task[t].req.id][task[t].seen])

\* two inserts under one id and a get after them have been answered, the get
\* with the vector of the second insert; the two inserts were counted
C30_Witness ==
    \E t \in Tasks :
        /\ Answered = Tasks
        /\ task[t].req.route = "get"
        /\ task[t].floor = 2
        /\ history[task[t].req.id][1] # history[task[t].req.id][2]
        /\ task[t].response = ApiResponse_ok(history[task[t].req.id][2])
        /\ state.request_count = 2

====
